---- MODULE Spec2Model ----
(***************************************************************************)
(* Nadrin/PBR: a physically based renderer with four graphics backends     *)
(* (OpenGL 4.5, Direct3D 11, Direct3D 12, Vulkan) behind one interface     *)
(* (initialize / setup / render / shutdown).                               *)
(*                                                                         *)
(* The module holds several specifications over one set of variables:      *)
(*   Spec      the renderer life cycle driven by Application::run, with    *)
(*             the GPU queue, the fences and the swap chain;               *)
(*   SpecHeap  the D3D12 descriptor heap bump allocator with               *)
(*             DescriptorHeapMark scopes;                                  *)
(*   SpecTex   createTexture / numMipmapLevels and the specular prefilter  *)
(*             stage as functions of their arguments;                      *)
(*   SpecScene the scene's lights and the shading uniform block;           *)
(*   SpecMesh  mesh buffers and the draw calls of render;                  *)
(*   SpecMem   Vulkan memory type selection;                               *)
(*   SpecRing  the upload / uniform ring buffer allocators;                *)
(*   SpecTargets  the render targets of a frame and the resolve step;      *)
(*   SpecGpu   the GPU's execution of the precompute commands;             *)
(*   SpecStaging  the staging buffers of createMeshBuffer;                 *)
(*   SpecBarriers  the D3D12 resource states of the frame targets;         *)
(*   SpecLayouts  the Vulkan image layouts during setup;                   *)
(*   SpecDescriptors  the D3D12 descriptor heap during setup;              *)
(*   SpecUniforms  the per-frame uniform blocks of the ring buffer;        *)
(*   SpecMips  the D3D12 downsample pipeline states during setup.          *)
(* A specification leaves the variables of the others at their initial    *)
(* values.                                                                 *)
(***************************************************************************)
EXTENDS Integers, Sequences, FiniteSets, TLC

VARIABLES
    \* ---- renderer life cycle (Spec) ----
    backend,             \* which Renderer class Application::run drives
    pc,                  \* position of the single CPU thread
    setupStep,           \* index of the next submission of setup()
    queue,               \* GPU queue: submitted, not yet executed commands
    recorded,            \* compute commands recorded by setup(), in order
    textures,            \* textures created by setup(): name -> Texture
    m_numFrames,         \* number of frame slots
    m_frameIndex,        \* current frame slot
    swapchainImage,      \* image index the swap chain last handed out
    m_fenceValues,       \* D3D12: per-slot fence value
    m_fence,             \* D3D12: completed value of the ID3D12Fence
    eventOnCompletion,   \* D3D12: value armed by SetEventOnCompletion, or -1
    m_fenceCompletionEvent, \* D3D12: auto-reset event, TRUE when set
    prevFrameFenceValue, \* D3D12: local of presentFrame kept across its wait
    m_submitFences,      \* Vulkan: per-slot fence, TRUE when signaled
    m_frameCount,        \* Vulkan: number of presented frames
    numFencesToWaitFor,  \* Vulkan: local of presentFrame kept across its wait
    renderCalls,         \* slots used by the render calls so far, in order
    resetWhilePending,   \* a render reset a slot whose work was still queued
    pendingAtWaitReturn, \* work left in the queue at the return of each
                         \* immediate mode wait so far, in order
    pendingAtRelease,    \* work left in the queue when shutdown released
                         \* the resources (-1: not yet)
    \* ---- descriptor heap (SpecHeap) ----
    heap,                \* DescriptorHeap {numDescriptorsInHeap, numDescriptorsAllocated}
    marks,               \* stack of live DescriptorHeapMark objects
    lastAlloc,           \* index returned by the latest alloc(), or -1
    restored,            \* the mark whose destructor ran last, if no alloc() followed yet
    afterRestore,        \* the mark that the latest alloc() directly followed
    heapFault,           \* operator[] was asked for an index outside the heap
    \* ---- createTexture and the prefilter stage (SpecTex) ----
    texArgs,             \* arguments of the createTexture call
    texResult,           \* Texture it returned
    deltaRoughness,      \* local of the prefilter stage run on texResult
    spmapResult,         \* commands recorded by that stage
    \* ---- scene settings and the shading uniform block (SpecScene) ----
    m_sceneSettings,     \* Application::m_sceneSettings.lights
    renderedScene,       \* the scene argument of the latest render, or <<>>
    shadingUniforms,     \* lights of the shading uniform block, or <<>>
    \* ---- mesh buffers and draw calls (SpecMesh) ----
    meshFaces,           \* number of faces of each loaded Mesh
    meshBuffers,         \* MeshBuffer::numElements of each mesh, -1 before creation
    drawCalls,           \* draw calls recorded by the latest render, in order
    \* ---- Vulkan memory type selection (SpecMem) ----
    memoryTypes,         \* m_phyDevice.memory.memoryTypes: index -> propertyFlags
    memArgs,             \* arguments of the chooseMemoryType call
    memResult,           \* outcome of chooseMemoryType: status "none" before the
                         \* call, "returned" with the index, "fatal" on failure
    bufferState,         \* how createBuffer's vkAllocateMemory went
    \* ---- upload / uniform ring buffer (SpecRing) ----
    ring,                \* UploadBuffer / UniformBuffer {capacity, cursor}
    ringLimits,          \* Vulkan device limits used by allocFromUniformBuffer
    ringLast,            \* the latest allocation: cursor before it, arguments, outcome
    \* ---- render targets made by initialize (SpecTargets) ----
    deviceSamples,       \* what the device answers to the multisampling queries
    targets,             \* selected sample count, main and resolve target of a frame
    resolveStep,         \* what the latest render's resolve step did
    \* ---- GPU execution of the precompute commands (SpecGpu) ----
    cpuStage,            \* number of precompute submissions setup has made
    gpuStream,           \* the commands handed to the GPU, in submission order
    gpuState,            \* per command: "queued", "running" or "done"
    \* ---- staging in createMeshBuffer (SpecStaging) ----
    uploadCall,          \* position inside createMeshBuffer and the mesh it is called for
    uploads,             \* per mesh and buffer: memory kind, staging buffer, copy
    uploadQueue,         \* GPU queue: the copies (and fence signals) submitted
    uploadFence,         \* d3d12: m_fence's completed value and m_fenceValues[m_frameIndex]
    \* ---- D3D12 resource states of the frame targets (SpecBarriers) ----
    barrierPc,           \* "setup", "loop" or "render"
    barrierFrame,        \* m_frameIndex, renders begun, render's next barrier call
    resourceStates,      \* the state each color target and back buffer is in
    barrierLog,          \* the transition barriers recorded, with the state found
    layoutPc,            \* index of the next recorded command of the Vulkan setup
    layoutProgram,       \* the image commands setup() records, in recording order
    imageLayouts,        \* layout and content validity of every mip level of an image
    layoutFaults,        \* indices of commands that found another layout than declared
    descPc,              \* index of the next descriptor command of the D3D12 setup
    descProgram,         \* the descriptor heap commands setup() executes, in order
    descHeap,            \* m_descHeapCBV_SRV_UAV
    descScopes,          \* live DescriptorHeapMark objects, innermost last
    descHandles,         \* texture or view name -> heap slots of its srv, uav and cbv
    descList,            \* dispatches recorded in the open command list
    descQueue,           \* GPU queue: executing command lists and fence signals
    descFence,           \* completed value of m_fence and m_fenceValues[m_frameIndex]
    descLog,             \* every dispatch recorded so far, with the slots it names
    descFaults,          \* misuses of the heap observed so far
    uniformBuffer,       \* m_constantBuffer (d3d12) or m_uniformBuffer (vulkan)
    uniformFrame,        \* position in setup() and the render loop, frame slot, limits
    uniformRegions,      \* frame slot -> the transform and shading regions
    uniformLog,          \* every sub-allocation made so far, with the phase it was made in
    mipPc,               \* the next texture setup() creates (d3d12 mip generation)
    mipmapGeneration,    \* the downsample pipeline states created so far
    mipLog               \* every generateMipmaps call, with the state it dispatched with

lifeVars ==
    <<backend, pc, setupStep, queue, recorded, textures, m_numFrames,
      m_frameIndex, swapchainImage, m_fenceValues, m_fence, eventOnCompletion,
      m_fenceCompletionEvent, prevFrameFenceValue, m_submitFences,
      m_frameCount, numFencesToWaitFor, renderCalls, resetWhilePending,
      pendingAtWaitReturn, pendingAtRelease>>

heapVars ==
    <<heap, marks, lastAlloc, restored, afterRestore, heapFault>>

texVars ==
    <<texArgs, texResult, deltaRoughness, spmapResult>>

sceneVars ==
    <<m_sceneSettings, renderedScene, shadingUniforms>>

meshVars ==
    <<meshFaces, meshBuffers, drawCalls>>

memVars ==
    <<memoryTypes, memArgs, memResult, bufferState>>

ringVars ==
    <<ring, ringLimits, ringLast>>

targetVars ==
    <<deviceSamples, targets, resolveStep>>

gpuVars ==
    <<cpuStage, gpuStream, gpuState>>

uploadVars ==
    <<uploadCall, uploads, uploadQueue, uploadFence>>

barrierVars ==
    <<barrierPc, barrierFrame, resourceStates, barrierLog>>

layoutVars ==
    <<layoutPc, layoutProgram, imageLayouts, layoutFaults>>

descVars ==
    <<descPc, descProgram, descHeap, descScopes, descHandles, descList, descQueue, descFence, descLog, descFaults>>

uniformVars ==
    <<uniformBuffer, uniformFrame, uniformRegions, uniformLog>>

mipVars ==
    <<mipPc, mipmapGeneration, mipLog>>

vars ==
    <<lifeVars, heapVars, texVars, sceneVars, meshVars, memVars, ringVars, targetVars,
      gpuVars, uploadVars, barrierVars, layoutVars, descVars, uniformVars, mipVars>>

nonLifeVars ==
    <<heapVars, texVars, sceneVars, meshVars, memVars, ringVars, targetVars, gpuVars,
      uploadVars, barrierVars, layoutVars, descVars, uniformVars, mipVars>>

nonHeapVars ==
    <<lifeVars, texVars, sceneVars, meshVars, memVars, ringVars, targetVars, gpuVars,
      uploadVars, barrierVars, layoutVars, descVars, uniformVars, mipVars>>

nonTexVars ==
    <<lifeVars, heapVars, sceneVars, meshVars, memVars, ringVars, targetVars, gpuVars,
      uploadVars, barrierVars, layoutVars, descVars, uniformVars, mipVars>>

nonSceneVars ==
    <<lifeVars, heapVars, texVars, meshVars, memVars, ringVars, targetVars, gpuVars,
      uploadVars, barrierVars, layoutVars, descVars, uniformVars, mipVars>>

nonMeshVars ==
    <<lifeVars, heapVars, texVars, sceneVars, memVars, ringVars, targetVars, gpuVars,
      uploadVars, barrierVars, layoutVars, descVars, uniformVars, mipVars>>

nonMemVars ==
    <<lifeVars, heapVars, texVars, sceneVars, meshVars, ringVars, targetVars, gpuVars,
      uploadVars, barrierVars, layoutVars, descVars, uniformVars, mipVars>>

nonRingVars ==
    <<lifeVars, heapVars, texVars, sceneVars, meshVars, memVars, targetVars, gpuVars,
      uploadVars, barrierVars, layoutVars, descVars, uniformVars, mipVars>>

nonTargetVars ==
    <<lifeVars, heapVars, texVars, sceneVars, meshVars, memVars, ringVars, gpuVars,
      uploadVars, barrierVars, layoutVars, descVars, uniformVars, mipVars>>

nonGpuVars ==
    <<lifeVars, heapVars, texVars, sceneVars, meshVars, memVars, ringVars, targetVars,
      uploadVars, barrierVars, layoutVars, descVars, uniformVars, mipVars>>

nonUploadVars ==
    <<lifeVars, heapVars, texVars, sceneVars, meshVars, memVars, ringVars, targetVars,
      gpuVars, barrierVars, layoutVars, descVars, uniformVars, mipVars>>

nonBarrierVars ==
    <<lifeVars, heapVars, texVars, sceneVars, meshVars, memVars, ringVars, targetVars,
      gpuVars, uploadVars, layoutVars, descVars, uniformVars, mipVars>>

nonLayoutVars ==
    <<lifeVars, heapVars, texVars, sceneVars, meshVars, memVars, ringVars, targetVars,
      gpuVars, uploadVars, barrierVars, descVars, uniformVars, mipVars>>

nonDescVars ==
    <<lifeVars, heapVars, texVars, sceneVars, meshVars, memVars, ringVars, targetVars,
      gpuVars, uploadVars, barrierVars, layoutVars, uniformVars, mipVars>>

nonUniformVars ==
    <<lifeVars, heapVars, texVars, sceneVars, meshVars, memVars, ringVars, targetVars,
      gpuVars, uploadVars, barrierVars, layoutVars, descVars, mipVars>>

nonMipVars ==
    <<lifeVars, heapVars, texVars, sceneVars, meshVars, memVars, ringVars, targetVars,
      gpuVars, uploadVars, barrierVars, layoutVars, descVars, uniformVars>>

(***************************************************************************)
(* Bounds of the model.                                                    *)
(***************************************************************************)
MaxRenders ==
    4

MaxVkFrames ==
    3

MaxDim ==
    20

MaxHeap ==
    3

MaxLevelsArg ==
    3

MaxMarks ==
    2

MaxLog2Dim ==
    10

MaxRadiance ==
    2

MaxFaces ==
    4

MaxMemoryTypes ==
    2

MaxRingCapacity ==
    8

MaxImageDim ==
    4

MaxImageLog2 ==
    2

MaxSamplesLog2 ==
    4

(***************************************************************************)
(* Program constants.                                                      *)
(***************************************************************************)
NumFrames ==
    2

Backends ==
    {"d3d12", "vulkan", "d3d11", "opengl"}

ExplicitBackends ==
    {"d3d12", "vulkan"}

kEnvMapSize ==
    1024

kIrradianceMapSize ==
    32

kBRDF_LUT_Size ==
    256

NumLights ==
    3

Max(a, b) ==
    IF a > b THEN a ELSE b

(***************************************************************************)
(* Utility::numMipmapLevels (common/utils.hpp).                            *)
(*     T levels = 1;                                                       *)
(*     while((width|height) >> levels) ++levels;                           *)
(*     return levels;                                                      *)
(***************************************************************************)
RECURSIVE BitOr(_, _)
BitOr(a, b) ==
    IF a = 0 THEN b
    ELSE IF b = 0 THEN a
    ELSE (IF a % 2 = 1 \/ b % 2 = 1 THEN 1 ELSE 0) + 2 * BitOr(a \div 2, b \div 2)

ShiftRight(v, n) ==
    v \div (2 ^ n)

RECURSIVE MipLoop(_, _)
MipLoop(v, levels) ==
    IF ShiftRight(v, levels) # 0 THEN MipLoop(v, levels + 1) ELSE levels

\* Mutation of numMipmapLevels: the height is ignored.
numMipmapLevels_WidthOnly(width, height) ==
    MipLoop(width, 1)

numMipmapLevels(width, height) ==
    MipLoop(BitOr(width, height), 1)

(***************************************************************************)
(* createTexture of each backend: the stored level count is the requested *)
(* one, or numMipmapLevels when the request is 0.                          *)
(***************************************************************************)
Texture(width, height, layers, levels) ==
    [width |-> width, height |-> height, layers |-> layers, levels |-> levels]

NoMark ==
    [mark |-> -1, first |-> -1, nested |-> FALSE]

NoTexture ==
    Texture(0, 0, 0, 0)

createTexture_opengl(width, height, layers, levels) ==
    Texture(width, height, layers,
            IF levels > 0 THEN levels ELSE numMipmapLevels(width, height))

createTexture_d3d11(width, height, levels) ==
    Texture(width, height, 1,
            IF levels > 0 THEN levels ELSE numMipmapLevels(width, height))

createTextureCube_d3d11(width, height, levels) ==
    Texture(width, height, 6,
            IF levels > 0 THEN levels ELSE numMipmapLevels(width, height))

createTexture_d3d12(width, height, depth, levels) ==
    Texture(width, height, depth,
            IF levels > 0 THEN levels ELSE numMipmapLevels(width, height))

\* Mutation of createTexture_vulkan: a request of 0 levels stores one level.
createTexture_vulkan_NoAuto(width, height, layers, levels) ==
    Texture(width, height, layers, Max(levels, 1))

createTexture_vulkan(width, height, layers, levels) ==
    Texture(width, height, layers,
            IF levels > 0 THEN levels ELSE numMipmapLevels(width, height))

\* The createTexture call a backend makes for a texture of `layers` layers.
createTexture(b, width, height, layers, levels) ==
    CASE b = "opengl" -> createTexture_opengl(width, height, layers, levels)
      [] b = "d3d11"  -> IF layers = 6
                         THEN createTextureCube_d3d11(width, height, levels)
                         ELSE createTexture_d3d11(width, height, levels)
      [] b = "d3d12"  -> createTexture_d3d12(width, height, layers, levels)
      [] b = "vulkan" -> createTexture_vulkan(width, height, layers, levels)

(***************************************************************************)
(* Single precision arithmetic of the roughness computation.  A positive   *)
(* float is the record [m, e] standing for m * 2^e with 2^23 <= m < 2^24;  *)
(* results are rounded to nearest, ties to even.                           *)
(***************************************************************************)
RoundHalfEven(n, d) ==
    LET q == n \div d
        r == n % d
    IN  IF 2 * r > d \/ (2 * r = d /\ q % 2 = 1) THEN q + 1 ELSE q

Renorm(m, e) ==
    IF m = 2 ^ 24 THEN [m |-> 2 ^ 23, e |-> e + 1] ELSE [m |-> m, e |-> e]

RECURSIVE ScaleUp(_, _, _)
ScaleUp(a, b, k) ==
    IF (a * 2 ^ k) \div b >= 2 ^ 23 THEN k ELSE ScaleUp(a, b, k + 1)

RECURSIVE ScaleDown(_, _)
ScaleDown(p, s) ==
    IF p \div (2 ^ s) < 2 ^ 24 THEN s ELSE ScaleDown(p, s + 1)

\* float(a) / float(b) for small positive integers a, b.
FloatDiv(a, b) ==
    LET k == ScaleUp(a, b, 0)
    IN  Renorm(RoundHalfEven(a * 2 ^ k, b), -k)

\* n * f for a small positive integer n converted to float.
FloatMulInt(n, f) ==
    LET p == n * f.m
        s == ScaleDown(p, 0)
    IN  Renorm(RoundHalfEven(p, 2 ^ s), f.e + s)

FloatOne ==
    [m |-> 2 ^ 23, e |-> -23]

FloatZero ==
    [m |-> 0, e |-> 0]

FloatLE(x, y) ==
    \/ x.m = 0
    \/ y.m # 0 /\ (x.e < y.e \/ (x.e = y.e /\ x.m <= y.m))

(***************************************************************************)
(* Compute commands recorded by setup().  level is the destination mip     *)
(* bound for writing, roughness the float handed to the filter shader.     *)
(***************************************************************************)
Cmd(op, stage, level, roughness, groups, depth) ==
    [op |-> op, stage |-> stage, level |-> level, roughness |-> roughness,
     groups |-> groups, depth |-> depth]

\* Mutation of DeltaRoughness: the step is 1/levels.
DeltaRoughness_PerLevel(levels) ==
    FloatDiv(1, Max(levels, 1))

\* const float deltaRoughness = 1.0f / max(float(levels-1), 1.0f);
DeltaRoughness(levels) ==
    FloatDiv(1, Max(levels - 1, 1))

SpmapDispatch(level, size, levels, depth) ==
    Cmd("dispatch", "spmap", level, FloatMulInt(level, DeltaRoughness(levels)),
        Max(1, size \div 32), depth)

\* opengl.cpp: for(level=1, size=kEnvMapSize/2; level<=m_envTexture.levels; ++level, size/=2)
RECURSIVE SpmapLoop_opengl(_, _, _)
SpmapLoop_opengl(level, size, levels) ==
    IF level <= levels
    THEN <<SpmapDispatch(level, size, levels, 6)>>
         \o SpmapLoop_opengl(level + 1, size \div 2, levels)
    ELSE <<>>

\* d3d11.cpp: for(level=1, size=512; level<m_envTexture.levels; ++level, size/=2)
RECURSIVE SpmapLoop_d3d11(_, _, _)
SpmapLoop_d3d11(level, size, levels) ==
    IF level < levels
    THEN <<SpmapDispatch(level, size, levels, 6)>>
         \o SpmapLoop_d3d11(level + 1, size \div 2, levels)
    ELSE <<>>

\* d3d12.cpp: for(level=1, size=512; level<m_envTexture.levels; ++level, size/=2)
RECURSIVE SpmapLoop_d3d12(_, _, _)
SpmapLoop_d3d12(level, size, levels) ==
    IF level < levels
    THEN <<SpmapDispatch(level, size, levels, 6)>>
         \o SpmapLoop_d3d12(level + 1, size \div 2, levels)
    ELSE <<>>

\* vulkan.cpp: for(level=1, size=kEnvMapSize/2; level<kEnvMapLevels; ++level, size/=2)
RECURSIVE SpmapLoop_vulkan(_, _, _)
SpmapLoop_vulkan(level, size, levels) ==
    IF level < levels
    THEN <<SpmapDispatch(level, size, levels, 6)>>
         \o SpmapLoop_vulkan(level + 1, size \div 2, levels)
    ELSE <<>>

CopyMip0 ==
    Cmd("copy", "spmap", 0, FloatZero, 0, 6)

\* The specular prefilter stage of setup(): the mip 0 copy, then the loop.
SpmapCommands(b, levels) ==
    <<CopyMip0>> \o
    (CASE b = "opengl" -> SpmapLoop_opengl(1, kEnvMapSize \div 2, levels)
       [] b = "d3d11"  -> SpmapLoop_d3d11(1, 512, levels)
       [] b = "d3d12"  -> SpmapLoop_d3d12(1, 512, levels)
       [] b = "vulkan" -> SpmapLoop_vulkan(1, kEnvMapSize \div 2, levels))

(***************************************************************************)
(* setup(): the submissions it makes, in program order.  In the explicit   *)
(* backends every stage is one immediate mode submission followed by a     *)
(* wait; D3D11 never waits and OpenGL waits once, in glFinish at the end.  *)
(* The Vulkan mesh stages assume device local memory that needs staging.   *)
(***************************************************************************)
SetupStages(b) ==
    CASE b = "d3d12"  -> <<"screenQuad", "pbrModel", "albedo", "normal",
                           "metalness", "roughness", "skybox", "equirect",
                           "equirect2cube", "spmap", "irmap", "spBRDF",
                           "frameResources">>
      [] b = "vulkan" -> <<"pbrModel", "albedo", "albedoMips", "normal",
                           "normalMips", "metalness", "metalnessMips",
                           "roughness", "roughnessMips", "skybox", "equirect",
                           "equirect2cube", "envMips", "spmap", "irmap",
                           "spBRDF">>
      [] b = "d3d11"  -> <<"albedo", "normal", "metalness", "roughness",
                           "equirect", "equirect2cube", "envMips", "spmap",
                           "irmap", "spBRDF">>
      [] b = "opengl" -> <<"albedo", "normal", "metalness", "roughness",
                           "equirect", "equirect2cube", "envMips", "spmap",
                           "irmap", "spBRDF", "glFinish">>

StageSubmits(b, stage) ==
    stage # "glFinish"

\* Mutation of StageWaits: setup never waits for the GPU.
StageWaits_Never(b, stage) ==
    FALSE

StageWaits(b, stage) ==
    CASE b \in ExplicitBackends -> TRUE
      [] b = "opengl" -> stage = "glFinish"
      [] b = "d3d11"  -> FALSE

TexNames ==
    {"env", "irmap", "spBRDF_LUT"}

\* Textures of TexNames that setup() creates on its way to submitting `stage`.
StageTextures(b, stage) ==
    CASE b = "d3d12" ->
           (CASE stage = "equirect" -> [n \in {"env"} |-> createTexture_d3d12(1024, 1024, 6, 0)]
              [] stage = "irmap"    -> [n \in {"irmap"} |-> createTexture_d3d12(32, 32, 6, 1)]
              [] stage = "spBRDF"   -> [n \in {"spBRDF_LUT"} |-> createTexture_d3d12(256, 256, 1, 1)]
              [] OTHER -> <<>>)
      [] b = "vulkan" ->
           (CASE stage = "pbrModel" ->
                   [n \in TexNames |->
                      CASE n = "env" -> createTexture_vulkan(kEnvMapSize, kEnvMapSize, 6, 0)
                        [] n = "irmap" -> createTexture_vulkan(kIrradianceMapSize, kIrradianceMapSize, 6, 1)
                        [] n = "spBRDF_LUT" -> createTexture_vulkan(kBRDF_LUT_Size, kBRDF_LUT_Size, 1, 1)]
              [] OTHER -> <<>>)
      [] b = "d3d11" ->
           (CASE stage = "spmap"  -> [n \in {"env"} |-> createTextureCube_d3d11(1024, 1024, 0)]
              [] stage = "irmap"  -> [n \in {"irmap"} |-> createTextureCube_d3d11(32, 32, 1)]
              [] stage = "spBRDF" -> [n \in {"spBRDF_LUT"} |-> createTexture_d3d11(256, 256, 1)]
              [] OTHER -> <<>>)
      [] b = "opengl" ->
           (CASE stage = "spmap"  -> [n \in {"env"} |-> createTexture_opengl(kEnvMapSize, kEnvMapSize, 6, 0)]
              [] stage = "irmap"  -> [n \in {"irmap"} |-> createTexture_opengl(kIrradianceMapSize, kIrradianceMapSize, 6, 1)]
              [] stage = "spBRDF" -> [n \in {"spBRDF_LUT"} |-> createTexture_opengl(kBRDF_LUT_Size, kBRDF_LUT_Size, 1, 1)]
              [] OTHER -> <<>>)

WithTextures(tex, created) ==
    [n \in TexNames |-> IF n \in DOMAIN created THEN created[n] ELSE tex[n]]

\* Level count that bounds the prefilter loop: m_envTexture.levels, or the
\* constant kEnvMapLevels in Vulkan.
SpmapLevels(b, tex) ==
    IF b = "vulkan"
    THEN numMipmapLevels(kEnvMapSize, kEnvMapSize)
    ELSE tex["env"].levels

\* Compute commands recorded for `stage`, in recording order.
StageCommands(b, stage, tex) ==
    CASE stage = "equirect2cube" ->
           <<Cmd("dispatch", "equirect2cube", 0, FloatZero, 1024 \div 32, 6)>>
           \o (IF b = "d3d12" THEN <<Cmd("genmips", "envMips", 1, FloatZero, 0, 6)>> ELSE <<>>)
      [] stage = "envMips" -> <<Cmd("genmips", "envMips", 1, FloatZero, 0, 6)>>
      [] stage = "spmap"   -> SpmapCommands(b, SpmapLevels(b, tex))
      [] stage = "irmap"   -> <<Cmd("dispatch", "irmap", 0, FloatZero, tex["irmap"].width \div 32, 6)>>
      [] stage = "spBRDF"  -> <<Cmd("dispatch", "spBRDF", 0, FloatZero, tex["spBRDF_LUT"].width \div 32,
                                    IF b = "vulkan" THEN 6 ELSE 1)>>
      [] OTHER -> <<>>

(***************************************************************************)
(* The GPU queue.                                                          *)
(***************************************************************************)
Work(kind, slot, fence, tag) ==
    [kind |-> kind, slot |-> slot, fence |-> fence, value |-> 0, tag |-> tag]

Signal(value) ==
    [kind |-> "signal", slot |-> -1, fence |-> -1, value |-> value, tag |-> ""]

IsWork(c) ==
    c.kind # "signal"

IsFrame(c) ==
    c.kind = "frame"

PendingWork(q) ==
    Len(SelectSeq(q, IsWork))

\* Work recorded in command allocator / command buffer `slot` is still queued.
SlotPending(q, slot) ==
    \E k \in 1..Len(q) : IsWork(q[k]) /\ q[k].slot = slot

InFlightFrames ==
    Len(SelectSeq(queue, IsFrame))

(***************************************************************************)
(* Life cycle: Application::run calls initialize, setup, render in a loop, *)
(* shutdown.                                                               *)
(***************************************************************************)
InitHeapIdle ==
    /\ heap = [numDescriptorsInHeap |-> 0, numDescriptorsAllocated |-> 0]
    /\ marks = <<>>
    /\ lastAlloc = -1
    /\ restored = FALSE
    /\ afterRestore = NoMark
    /\ heapFault = "none"

InitTexIdle ==
    /\ texArgs = [width |-> 1, height |-> 1, layers |-> 1, levels |-> 1]
    /\ texResult = NoTexture
    /\ deltaRoughness = FloatZero
    /\ spmapResult = <<>>

\* Application::Application: three lights of radiance 1, all disabled.
InitSceneIdle ==
    /\ m_sceneSettings =
          [i \in 1..NumLights |->
             [direction |-> <<<<-1, 0, 0>>, <<1, 0, 0>>, <<0, -1, 0>>>>[i],
              radiance |-> <<1, 1, 1>>, enabled |-> FALSE]]
    /\ renderedScene = <<>>
    /\ shadingUniforms = <<>>

MeshNames ==
    {"skybox", "pbrModel"}

InitMeshIdle ==
    /\ meshFaces = [n \in MeshNames |-> 1]
    /\ meshBuffers = [n \in MeshNames |-> -1]
    /\ drawCalls = <<>>

InitMemIdle ==
    /\ memoryTypes = <<>>
    /\ memArgs = [memoryTypeBits |-> {}, preferredFlags |-> {}, requiredFlags |-> {}]
    /\ memResult = [status |-> "none", index |-> -1]
    /\ bufferState = "none"

NoAllocation ==
    [cursor |-> 0, size |-> 0, align |-> 1, status |-> "none"]

InitRingIdle ==
    /\ ring = [capacity |-> 0, cursor |-> 0]
    /\ ringLimits = [minUniformBufferOffsetAlignment |-> 1, maxUniformBufferRange |-> 0]
    /\ ringLast = NoAllocation

FrameBuffer(id, samples) ==
    [id |-> id, samples |-> samples]

\* A default-constructed FrameBuffer / RenderTarget.
NoFrameBuffer ==
    FrameBuffer(0, 0)

NoDevice ==
    [supported |-> {}, maxColorSamples |-> 1, maxDepthSamples |-> 1, maxSupportedSamples |-> 1]

InitTargetsIdle ==
    /\ deviceSamples = NoDevice
    /\ targets = [status |-> "none", samples |-> 0,
                  main |-> NoFrameBuffer, resolve |-> NoFrameBuffer]
    /\ resolveStep = "none"

InitGpuIdle ==
    /\ cpuStage = 0
    /\ gpuStream = <<>>
    /\ gpuState = <<>>

InitUploadIdle ==
    /\ uploadCall = [pc |-> "idle", mesh |-> ""]
    /\ uploads = <<>>
    /\ uploadQueue = <<>>
    /\ uploadFence = [completed |-> 0, value |-> 0]

InitBarriersIdle ==
    /\ barrierPc = "idle"
    /\ barrierFrame = [index |-> 0, renders |-> 0, samples |-> 0, step |-> 0]
    /\ resourceStates = <<>>
    /\ barrierLog = <<>>

InitLayoutsIdle ==
    /\ layoutPc = 0
    /\ layoutProgram = <<>>
    /\ imageLayouts = <<>>
    /\ layoutFaults = {}

InitDescriptorsIdle ==
    /\ descPc = 0
    /\ descProgram = <<>>
    /\ descHeap = [numDescriptorsInHeap |-> 0, numDescriptorsAllocated |-> 0]
    /\ descScopes = <<>>
    /\ descHandles = <<>>
    /\ descList = <<>>
    /\ descQueue = <<>>
    /\ descFence = [completed |-> 0, value |-> 0]
    /\ descLog = <<>>
    /\ descFaults = {}

InitUniformsIdle ==
    /\ uniformBuffer = [capacity |-> 0, cursor |-> 0]
    /\ uniformFrame = [pc |-> "idle", numFrames |-> 0, align |-> 1, next |-> 0,
                       block |-> 1, index |-> 0, renders |-> 0, cursorAtSetup |-> -1]
    /\ uniformRegions = <<>>
    /\ uniformLog = <<>>

InitMipsIdle ==
    /\ mipPc = 0
    /\ mipmapGeneration = {}
    /\ mipLog = <<>>

InitLifeIdle ==
    /\ pc = "initialize"
    /\ setupStep = 1
    /\ queue = <<>>
    /\ recorded = <<>>
    /\ textures = [n \in TexNames |-> NoTexture]
    /\ m_numFrames = 0
    /\ m_frameIndex = 0
    /\ swapchainImage = 0
    /\ m_fenceValues = [i \in 0..(NumFrames - 1) |-> 0]
    /\ m_fence = 0
    /\ eventOnCompletion = -1
    /\ m_fenceCompletionEvent = FALSE
    /\ prevFrameFenceValue = 0
    /\ m_submitFences = <<>>
    /\ m_frameCount = 0
    /\ numFencesToWaitFor = 0
    /\ renderCalls = <<>>
    /\ resetWhilePending = FALSE
    /\ pendingAtWaitReturn = <<>>
    /\ pendingAtRelease = -1

Init ==
    /\ backend \in Backends
    /\ InitLifeIdle
    /\ InitHeapIdle
    /\ InitTexIdle
    /\ InitSceneIdle
    /\ InitMeshIdle
    /\ InitMemIdle
    /\ InitRingIdle
    /\ InitTargetsIdle
    /\ InitGpuIdle
    /\ InitUploadIdle
    /\ InitBarriersIdle
    /\ InitLayoutsIdle
    /\ InitDescriptorsIdle
    /\ InitUniformsIdle
    /\ InitMipsIdle

\* ID3D12Fence::SetEventOnCompletion: the event is set at once when the fence
\* has already reached `value`, otherwise when it later does.
SetEventOnCompletion(value) ==
    IF m_fence >= value
    THEN /\ m_fenceCompletionEvent' = TRUE
         /\ eventOnCompletion' = -1
    ELSE /\ m_fenceCompletionEvent' = m_fenceCompletionEvent
         /\ eventOnCompletion' = value

\* vkQueueWaitIdle (vulkan executeImmediateCommandBuffer) or glFinish
\* (opengl setup) can return.
QueueIdle ==
    queue = <<>>

\* Mutation of vkDeviceWaitIdle: the wait returns at once.
vkDeviceWaitIdle_NoWait ==
    TRUE

\* vkDeviceWaitIdle (vulkan shutdown) can return.
vkDeviceWaitIdle ==
    queue = <<>>

Initialize ==
    /\ pc = "initialize"
    /\ pc' = "setup"
    /\ CASE backend = "d3d12" ->
              /\ m_numFrames' = NumFrames
              /\ m_frameIndex' = swapchainImage
              /\ m_submitFences' = m_submitFences
              /\ swapchainImage' = swapchainImage
         [] backend = "vulkan" ->
              \E n \in 2..MaxVkFrames : \E i \in 0..(n - 1) :
                 /\ m_numFrames' = n
                 /\ swapchainImage' = i
                 /\ m_frameIndex' = i
                 /\ m_submitFences' = [k \in 0..(n - 1) |-> FALSE]
         [] OTHER ->
              /\ m_numFrames' = 1
              /\ m_frameIndex' = 0
              /\ m_submitFences' = m_submitFences
              /\ swapchainImage' = swapchainImage
    /\ m_fence' = 0
    /\ m_frameCount' = 0
    /\ UNCHANGED <<backend, setupStep, queue, recorded, textures, m_fenceValues,
                   eventOnCompletion, m_fenceCompletionEvent, prevFrameFenceValue,
                   numFencesToWaitFor, renderCalls, resetWhilePending,
                   pendingAtWaitReturn, pendingAtRelease>>
    /\ UNCHANGED nonLifeVars

\* Mutation of AfterStage: run enters its loop after the first stage of setup.
AfterStage_LoopEarly ==
    /\ pc' = "loop"
    /\ setupStep' = setupStep

\* Where setup() goes after finishing the stage at setupStep.
AfterStage ==
    IF setupStep = Len(SetupStages(backend))
    THEN /\ pc' = "loop"
         /\ setupStep' = setupStep
    ELSE /\ pc' = "setup"
         /\ setupStep' = setupStep + 1

\* One stage of setup(): create its textures, record its commands, submit,
\* and (d3d12) start waitForGPU.
SetupSubmit ==
    /\ pc = "setup"
    /\ LET stage == SetupStages(backend)[setupStep]
           tex   == WithTextures(textures, StageTextures(backend, stage))
           q     == IF StageSubmits(backend, stage)
                    THEN Append(queue, Work("setup", m_frameIndex, -1, stage))
                    ELSE queue
       IN  /\ textures' = tex
           /\ recorded' = recorded \o StageCommands(backend, stage, tex)
           /\ IF backend = "d3d12"
              THEN /\ queue' = Append(q, Signal(m_fenceValues[m_frameIndex]))
                   /\ SetEventOnCompletion(m_fenceValues[m_frameIndex])
              ELSE /\ queue' = q
                   /\ UNCHANGED <<m_fenceCompletionEvent, eventOnCompletion>>
           /\ IF StageWaits(backend, stage)
              THEN /\ pc' = "setup_wait"
                   /\ setupStep' = setupStep
              ELSE AfterStage
    /\ UNCHANGED <<backend, m_numFrames, m_frameIndex, swapchainImage, m_fenceValues,
                   m_fence, prevFrameFenceValue, m_submitFences, m_frameCount,
                   numFencesToWaitFor, renderCalls, resetWhilePending,
                   pendingAtWaitReturn, pendingAtRelease>>
    /\ UNCHANGED nonLifeVars

\* The wait after an immediate mode submission returns: WaitForSingleObject
\* in waitForGPU (d3d12), vkQueueWaitIdle (vulkan), glFinish (opengl).
SetupWaitReturn ==
    /\ pc = "setup_wait"
    /\ IF backend = "d3d12"
       THEN /\ m_fenceCompletionEvent
            /\ m_fenceCompletionEvent' = FALSE
            /\ m_fenceValues' = [m_fenceValues EXCEPT ![m_frameIndex] = @ + 1]
       ELSE /\ QueueIdle
            /\ UNCHANGED <<m_fenceCompletionEvent, m_fenceValues>>
    /\ pendingAtWaitReturn' = IF backend \in ExplicitBackends
                              THEN Append(pendingAtWaitReturn, PendingWork(queue))
                              ELSE pendingAtWaitReturn
    /\ AfterStage
    /\ UNCHANGED <<backend, queue, recorded, textures, m_numFrames, m_frameIndex,
                   swapchainImage, m_fence, eventOnCompletion, prevFrameFenceValue,
                   m_submitFences, m_frameCount, numFencesToWaitFor, renderCalls,
                   resetWhilePending, pendingAtRelease>>
    /\ UNCHANGED nonLifeVars

\* render() up to its submission: the command allocator (d3d12) or command
\* buffer (vulkan) of slot m_frameIndex is reset and re-recorded.
RenderRecord ==
    /\ pc = "loop"
    /\ Len(renderCalls) < MaxRenders
    /\ pc' = "recording"
    /\ renderCalls' = Append(renderCalls, m_frameIndex)
    /\ resetWhilePending' = (resetWhilePending
                               \/ (backend \in ExplicitBackends
                                     /\ SlotPending(queue, m_frameIndex)))
    /\ UNCHANGED <<backend, setupStep, queue, recorded, textures, m_numFrames,
                   m_frameIndex, swapchainImage, m_fenceValues, m_fence,
                   eventOnCompletion, m_fenceCompletionEvent, prevFrameFenceValue,
                   m_submitFences, m_frameCount, numFencesToWaitFor,
                   pendingAtWaitReturn, pendingAtRelease>>
    /\ UNCHANGED nonLifeVars

\* D3D12::Renderer::presentFrame after executeCommandList.
presentFrame_d3d12(q) ==
    LET next == (swapchainImage + 1) % NumFrames
        prev == m_fenceValues[m_frameIndex]
        cur  == m_fenceValues[next]
    IN  /\ swapchainImage' = next
        /\ m_frameIndex' = next
        /\ prevFrameFenceValue' = prev
        /\ queue' = Append(q, Signal(prev))
        /\ IF m_fence < cur
           THEN /\ SetEventOnCompletion(cur)
                /\ m_fenceValues' = m_fenceValues
                /\ pc' = "present_wait"
           ELSE /\ UNCHANGED <<m_fenceCompletionEvent, eventOnCompletion>>
                /\ m_fenceValues' = [m_fenceValues EXCEPT ![next] = prev + 1]
                /\ pc' = "loop"
        /\ UNCHANGED <<m_submitFences, m_frameCount, numFencesToWaitFor>>

\* Vulkan::Renderer::presentFrame up to vkWaitForFences.  The image that
\* vkAcquireNextImageKHR returns is the presentation engine's choice among
\* the images it does not hold.
presentFrame_vulkan(q) ==
    \E i \in (0..(m_numFrames - 1)) \ {m_frameIndex} :
        /\ swapchainImage' = i
        /\ m_frameIndex' = i
        /\ queue' = q
        /\ numFencesToWaitFor' = IF m_frameCount < i THEN 1 ELSE 2
        /\ pc' = "present_wait"
        /\ UNCHANGED <<m_fenceValues, m_fenceCompletionEvent, eventOnCompletion,
                       prevFrameFenceValue, m_submitFences, m_frameCount>>

\* The end of render(): submit the frame and present.
RenderSubmit ==
    /\ pc = "recording"
    /\ CASE backend = "d3d12" ->
              presentFrame_d3d12(Append(queue, Work("frame", m_frameIndex, -1, "frame")))
         [] backend = "vulkan" ->
              presentFrame_vulkan(Append(queue, Work("frame", m_frameIndex, m_frameIndex, "frame")))
         [] OTHER ->
              /\ queue' = Append(queue, Work("frame", m_frameIndex, -1, "frame"))
              /\ pc' = "loop"
              /\ UNCHANGED <<swapchainImage, m_frameIndex, m_fenceValues,
                             m_fenceCompletionEvent, eventOnCompletion,
                             prevFrameFenceValue, m_submitFences, m_frameCount,
                             numFencesToWaitFor>>
    /\ UNCHANGED <<backend, setupStep, recorded, textures, m_numFrames, m_fence,
                   renderCalls, resetWhilePending, pendingAtWaitReturn,
                   pendingAtRelease>>
    /\ UNCHANGED nonLifeVars

\* Mutation of FencesSignaled: vkWaitForFences returns at once.
FencesSignaled_NoWait ==
    TRUE

\* vkWaitForFences(numFencesToWaitFor, {m_presentationFence,
\* m_submitFences[m_frameIndex]}, waitAll) can return.  The presentation
\* fence is signaled by the acquisition itself.
FencesSignaled ==
    numFencesToWaitFor = 2 => m_submitFences[m_frameIndex]

\* The wait in presentFrame returns.
PresentWaitReturn ==
    /\ pc = "present_wait"
    /\ pc' = "loop"
    /\ CASE backend = "d3d12" ->
              /\ m_fenceCompletionEvent
              /\ m_fenceCompletionEvent' = FALSE
              /\ m_fenceValues' = [m_fenceValues EXCEPT ![m_frameIndex] = prevFrameFenceValue + 1]
              /\ UNCHANGED <<m_submitFences, m_frameCount>>
         [] backend = "vulkan" ->
              /\ FencesSignaled
              /\ m_submitFences' = IF numFencesToWaitFor = 2
                                   THEN [m_submitFences EXCEPT ![m_frameIndex] = FALSE]
                                   ELSE m_submitFences
              /\ m_frameCount' = m_frameCount + 1
              /\ UNCHANGED <<m_fenceCompletionEvent, m_fenceValues>>
    /\ UNCHANGED <<backend, setupStep, queue, recorded, textures, m_numFrames,
                   m_frameIndex, swapchainImage, m_fence, eventOnCompletion,
                   prevFrameFenceValue, numFencesToWaitFor, renderCalls,
                   resetWhilePending, pendingAtWaitReturn, pendingAtRelease>>
    /\ UNCHANGED nonLifeVars

\* shutdown() is entered when the window closes.  d3d12 starts waitForGPU,
\* vulkan starts vkDeviceWaitIdle; d3d11 and opengl release at once.
ShutdownBegin ==
    /\ pc = "loop"
    /\ CASE backend = "d3d12" ->
              /\ queue' = Append(queue, Signal(m_fenceValues[m_frameIndex]))
              /\ SetEventOnCompletion(m_fenceValues[m_frameIndex])
              /\ pc' = "shutdown_wait"
              /\ pendingAtRelease' = pendingAtRelease
         [] backend = "vulkan" ->
              /\ pc' = "shutdown_wait"
              /\ UNCHANGED <<queue, m_fenceCompletionEvent, eventOnCompletion,
                             pendingAtRelease>>
         [] OTHER ->
              /\ pc' = "done"
              /\ pendingAtRelease' = PendingWork(queue)
              /\ UNCHANGED <<queue, m_fenceCompletionEvent, eventOnCompletion>>
    /\ UNCHANGED <<backend, setupStep, recorded, textures, m_numFrames, m_frameIndex,
                   swapchainImage, m_fenceValues, m_fence, prevFrameFenceValue,
                   m_submitFences, m_frameCount, numFencesToWaitFor, renderCalls,
                   resetWhilePending, pendingAtWaitReturn>>
    /\ UNCHANGED nonLifeVars

\* The wait in shutdown() returns and the resources are released.
ShutdownWaitReturn ==
    /\ pc = "shutdown_wait"
    /\ pc' = "done"
    /\ IF backend = "d3d12"
       THEN /\ m_fenceCompletionEvent
            /\ m_fenceCompletionEvent' = FALSE
            /\ m_fenceValues' = [m_fenceValues EXCEPT ![m_frameIndex] = @ + 1]
       ELSE /\ vkDeviceWaitIdle
            /\ UNCHANGED <<m_fenceCompletionEvent, m_fenceValues>>
    /\ pendingAtRelease' = PendingWork(queue)
    /\ UNCHANGED <<backend, setupStep, queue, recorded, textures, m_numFrames,
                   m_frameIndex, swapchainImage, m_fence, eventOnCompletion,
                   prevFrameFenceValue, m_submitFences, m_frameCount,
                   numFencesToWaitFor, renderCalls, resetWhilePending,
                   pendingAtWaitReturn>>
    /\ UNCHANGED nonLifeVars

\* The GPU retires the command at the head of its queue.
GPUStep ==
    /\ queue # <<>>
    /\ pc # "done"
    /\ LET c == Head(queue)
       IN  /\ queue' = Tail(queue)
           /\ IF c.kind = "signal"
              THEN /\ m_fence' = c.value
                   /\ IF eventOnCompletion # -1 /\ c.value >= eventOnCompletion
                      THEN /\ m_fenceCompletionEvent' = TRUE
                           /\ eventOnCompletion' = -1
                      ELSE UNCHANGED <<m_fenceCompletionEvent, eventOnCompletion>>
                   /\ m_submitFences' = m_submitFences
              ELSE /\ m_submitFences' = IF c.fence # -1
                                        THEN [m_submitFences EXCEPT ![c.fence] = TRUE]
                                        ELSE m_submitFences
                   /\ UNCHANGED <<m_fence, m_fenceCompletionEvent, eventOnCompletion>>
    /\ UNCHANGED <<backend, pc, setupStep, recorded, textures, m_numFrames,
                   m_frameIndex, swapchainImage, m_fenceValues, prevFrameFenceValue,
                   m_frameCount, numFencesToWaitFor, renderCalls, resetWhilePending,
                   pendingAtWaitReturn, pendingAtRelease>>
    /\ UNCHANGED nonLifeVars

Next ==
    \/ Initialize
    \/ SetupSubmit
    \/ SetupWaitReturn
    \/ RenderRecord
    \/ RenderSubmit
    \/ PresentWaitReturn
    \/ ShutdownBegin
    \/ ShutdownWaitReturn
    \/ GPUStep

Spec ==
    Init /\ [][Next]_vars

\* Spec with the scheduling a render call relies on: the CPU thread keeps
\* running, so render goes on to submit once it has recorded and the wait in
\* presentFrame returns once it can, and the GPU keeps executing what was
\* submitted.  Starting another render and closing the window are the
\* user's choice.
FairSpec ==
    /\ Spec
    /\ WF_vars(RenderSubmit)
    /\ WF_vars(PresentWaitReturn)
    /\ WF_vars(GPUStep)

(***************************************************************************)
(* SpecTex: one createTexture call with arguments drawn from TexArgs, and  *)
(* the specular prefilter stage of setup() run on the cubemap it returns.  *)
(***************************************************************************)
TexDims ==
    (1..MaxDim) \cup {2 ^ k : k \in 0..MaxLog2Dim}

TexArgs ==
    [width : TexDims, height : TexDims, layers : {1, 6}, levels : 0..MaxLevelsArg]

InitTex ==
    /\ backend \in Backends
    /\ InitLifeIdle
    /\ InitHeapIdle
    /\ InitSceneIdle
    /\ InitMeshIdle
    /\ InitMemIdle
    /\ InitRingIdle
    /\ InitTargetsIdle
    /\ InitGpuIdle
    /\ InitUploadIdle
    /\ InitBarriersIdle
    /\ InitLayoutsIdle
    /\ InitDescriptorsIdle
    /\ InitUniformsIdle
    /\ InitMipsIdle
    /\ texArgs \in TexArgs
    /\ texResult = NoTexture
    /\ deltaRoughness = FloatZero
    /\ spmapResult = <<>>

CreateTexture ==
    /\ texResult = NoTexture
    /\ texResult' = createTexture(backend, texArgs.width, texArgs.height,
                                  texArgs.layers, texArgs.levels)
    /\ UNCHANGED <<texArgs, deltaRoughness, spmapResult>>
    /\ UNCHANGED nonTexVars

\* The prefilter stage.  Vulkan bounds its loop by numMipmapLevels of the
\* size, which is the texture's level count when that was requested as 0.
FilterSpecular ==
    /\ texResult # NoTexture
    /\ texResult.layers = 6
    /\ backend = "vulkan" => texArgs.levels = 0
    /\ spmapResult = <<>>
    /\ deltaRoughness' = DeltaRoughness(texResult.levels)
    /\ spmapResult' = SpmapCommands(backend, texResult.levels)
    /\ UNCHANGED <<texArgs, texResult>>
    /\ UNCHANGED nonTexVars

NextTex ==
    \/ CreateTexture
    \/ FilterSpecular

SpecTex ==
    InitTex /\ [][NextTex]_vars

(***************************************************************************)
(* SpecHeap: DescriptorHeap::alloc and DescriptorHeapMark (d3d12.hpp).     *)
(* Marks are automatic objects, so they are destroyed in LIFO order.       *)
(***************************************************************************)
InitHeap ==
    /\ backend = "d3d12"
    /\ InitLifeIdle
    /\ InitTexIdle
    /\ InitSceneIdle
    /\ InitMeshIdle
    /\ InitMemIdle
    /\ InitRingIdle
    /\ InitTargetsIdle
    /\ InitGpuIdle
    /\ InitUploadIdle
    /\ InitBarriersIdle
    /\ InitLayoutsIdle
    /\ InitDescriptorsIdle
    /\ InitUniformsIdle
    /\ InitMipsIdle
    /\ \E n \in 1..MaxHeap :
          heap = [numDescriptorsInHeap |-> n, numDescriptorsAllocated |-> 0]
    /\ marks = <<>>
    /\ lastAlloc = -1
    /\ restored = NoMark
    /\ afterRestore = NoMark
    /\ heapFault = "none"

\* The first alloc() after a Mark is remembered in the mark's record.
NoteFirst(ms, index) ==
    [k \in 1..Len(ms) |->
        IF k = Len(ms) /\ ms[k].first = -1
        THEN [ms[k] EXCEPT !.first = index]
        ELSE ms[k]]

\* alloc(): return (*this)[numDescriptorsAllocated++];  operator[] asserts
\* index < numDescriptorsInHeap: a build with assertions aborts, a build
\* without them returns a handle past the end of the heap.
Alloc ==
    /\ heapFault = "none"
    /\ LET index == heap.numDescriptorsAllocated
       IN  /\ heap' = [heap EXCEPT !.numDescriptorsAllocated = index + 1]
           /\ IF index < heap.numDescriptorsInHeap
              THEN /\ lastAlloc' = index
                   /\ marks' = NoteFirst(marks, index)
                   /\ afterRestore' = restored
                   /\ restored' = NoMark
                   /\ heapFault' = "none"
              ELSE \/ /\ heapFault' = "abort"
                      /\ UNCHANGED <<lastAlloc, marks, afterRestore, restored>>
                   \/ /\ heapFault' = "overrun"
                      /\ lastAlloc' = index
                      /\ marks' = NoteFirst(marks, index)
                      /\ afterRestore' = restored
                      /\ restored' = NoMark
    /\ UNCHANGED nonHeapVars

\* DescriptorHeapMark constructor: mark(heap.numDescriptorsAllocated).
Mark ==
    /\ heapFault = "none"
    /\ Len(marks) < MaxMarks
    /\ marks' = Append([k \in 1..Len(marks) |-> [marks[k] EXCEPT !.nested = TRUE]],
                       [mark |-> heap.numDescriptorsAllocated, first |-> -1,
                        nested |-> FALSE])
    /\ UNCHANGED <<heap, lastAlloc, restored, afterRestore, heapFault>>
    /\ UNCHANGED nonHeapVars

\* Mutation of Restore: the destructor leaves the heap as it is.
Restore_KeepAllocated ==
    /\ heapFault = "none"
    /\ marks # <<>>
    /\ restored' = marks[Len(marks)]
    /\ marks' = SubSeq(marks, 1, Len(marks) - 1)
    /\ UNCHANGED <<heap, lastAlloc, afterRestore, heapFault>>
    /\ UNCHANGED nonHeapVars

\* DescriptorHeapMark destructor: heap.numDescriptorsAllocated = mark.
Restore ==
    /\ heapFault = "none"
    /\ marks # <<>>
    /\ heap' = [heap EXCEPT !.numDescriptorsAllocated = marks[Len(marks)].mark]
    /\ restored' = marks[Len(marks)]
    /\ marks' = SubSeq(marks, 1, Len(marks) - 1)
    /\ UNCHANGED <<lastAlloc, afterRestore, heapFault>>
    /\ UNCHANGED nonHeapVars

NextHeap ==
    \/ Alloc
    \/ Mark
    \/ Restore

SpecHeap ==
    InitHeap /\ [][NextHeap]_vars

(***************************************************************************)
(* SpecScene: the lights of SceneSettings, toggled by the F1..F3 keys, and *)
(* the shading uniform block that render() fills from them.  The loop is   *)
(* the same in the four backends.                                          *)
(***************************************************************************)
Directions ==
    {<<-1, 0, 0>>, <<1, 0, 0>>, <<0, -1, 0>>}

Radiances ==
    {<<r, r, r>> : r \in 0..MaxRadiance}

Lights ==
    [direction : Directions, radiance : Radiances, enabled : BOOLEAN]

\* glm::vec4{v, 0.0f}
Vec4(v) ==
    <<v[1], v[2], v[3], 0>>

\* glm::vec4{}
Vec4Zero ==
    <<0, 0, 0, 0>>

\* Mutation of ShadingLight: the radiance is written whether or not the light
\* is enabled.
ShadingLight_AlwaysLit(light) ==
    [direction |-> Vec4(light.direction), radiance |-> Vec4(light.radiance)]

\* Body of the loop over the lights in render().
ShadingLight(light) ==
    [direction |-> Vec4(light.direction),
     radiance  |-> IF light.enabled THEN Vec4(light.radiance) ELSE Vec4Zero]

InitScene ==
    /\ backend = "opengl"
    /\ InitLifeIdle
    /\ InitHeapIdle
    /\ InitTexIdle
    /\ InitMeshIdle
    /\ InitMemIdle
    /\ InitRingIdle
    /\ InitTargetsIdle
    /\ InitGpuIdle
    /\ InitUploadIdle
    /\ InitBarriersIdle
    /\ InitLayoutsIdle
    /\ InitDescriptorsIdle
    /\ InitUniformsIdle
    /\ InitMipsIdle
    /\ m_sceneSettings \in [1..NumLights -> Lights]
    /\ renderedScene = <<>>
    /\ shadingUniforms = <<>>

\* Application::keyCallback: F1, F2, F3 toggle a light.
KeyToggle ==
    /\ \E i \in 1..NumLights :
          m_sceneSettings' = [m_sceneSettings EXCEPT ![i].enabled = ~@]
    /\ UNCHANGED <<renderedScene, shadingUniforms>>
    /\ UNCHANGED nonSceneVars

\* render(): update of the shading uniform block.
UpdateShading ==
    /\ renderedScene' = m_sceneSettings
    /\ shadingUniforms' = [i \in 1..NumLights |-> ShadingLight(m_sceneSettings[i])]
    /\ UNCHANGED m_sceneSettings
    /\ UNCHANGED nonSceneVars

NextScene ==
    \/ KeyToggle
    \/ UpdateShading

SpecScene ==
    InitScene /\ [][NextScene]_vars

\* C11: after a render, each light's direction in the shading uniform block
\* is the one of the scene settings, its radiance is the configured one if
\* the light is enabled and the zero vector otherwise; so with all three
\* lights disabled every radiance is zero, whatever is configured.
C11_LightsInUniformBlock ==
    shadingUniforms # <<>> =>
        /\ \A i \in 1..NumLights :
              /\ SubSeq(shadingUniforms[i].direction, 1, 3) = renderedScene[i].direction
              /\ renderedScene[i].enabled =>
                    SubSeq(shadingUniforms[i].radiance, 1, 3) = renderedScene[i].radiance
              /\ ~renderedScene[i].enabled =>
                    shadingUniforms[i].radiance = <<0, 0, 0, 0>>
        /\ (\A i \in 1..NumLights : ~renderedScene[i].enabled) =>
              \A i \in 1..NumLights : shadingUniforms[i].radiance = <<0, 0, 0, 0>>

C11_Witness ==
    /\ shadingUniforms # <<>>
    /\ \A i \in 1..NumLights :
          /\ ~renderedScene[i].enabled
          /\ renderedScene[i].radiance = <<MaxRadiance, MaxRadiance, MaxRadiance>>
          /\ shadingUniforms[i].radiance = <<0, 0, 0, 0>>
    /\ shadingUniforms[1].direction = <<0, -1, 0, 0>>

(***************************************************************************)
(* SpecMesh: createMeshBuffer for the two meshes that setup() loads, and   *)
(* the draw calls of render().  Face counts stay far below 2^32 / 3, so    *)
(* the conversion of faces().size() * 3 to 32 bits does not wrap.          *)
(***************************************************************************)
\* Mutation of createMeshBuffer: one element per face.
createMeshBuffer_PerFace(faces) ==
    faces

\* buffer.numElements = static_cast<uint32_t>(mesh->faces().size() * 3);
createMeshBuffer(faces) ==
    faces * 3

DrawCall(mesh, count) ==
    [mesh |-> mesh, count |-> count]

\* Draw calls of render(), in order.  The post-processing pass draws the
\* four-vertex m_screenQuad strip in D3D and a three-vertex triangle otherwise.
RenderDrawCalls(b, buffers) ==
    <<DrawCall("skybox", buffers["skybox"]),
      DrawCall("pbrModel", buffers["pbrModel"]),
      DrawCall("screen", IF b \in {"d3d11", "d3d12"} THEN 4 ELSE 3)>>

InitMesh ==
    /\ backend \in Backends
    /\ InitLifeIdle
    /\ InitHeapIdle
    /\ InitTexIdle
    /\ InitSceneIdle
    /\ InitMemIdle
    /\ InitRingIdle
    /\ InitTargetsIdle
    /\ InitGpuIdle
    /\ InitUploadIdle
    /\ InitBarriersIdle
    /\ InitLayoutsIdle
    /\ InitDescriptorsIdle
    /\ InitUniformsIdle
    /\ InitMipsIdle
    /\ meshFaces \in [MeshNames -> 0..MaxFaces]
    /\ meshBuffers = [n \in MeshNames |-> -1]
    /\ drawCalls = <<>>

\* setup(): m_pbrModel / m_skybox = createMeshBuffer(Mesh::fromFile(...)).
CreateMeshBuffer ==
    /\ \E n \in MeshNames :
          /\ meshBuffers[n] = -1
          /\ meshBuffers' = [meshBuffers EXCEPT ![n] = createMeshBuffer(meshFaces[n])]
    /\ UNCHANGED <<meshFaces, drawCalls>>
    /\ UNCHANGED nonMeshVars

\* render(), once setup() has created both mesh buffers.
RenderDraws ==
    /\ \A n \in MeshNames : meshBuffers[n] # -1
    /\ drawCalls' = RenderDrawCalls(backend, meshBuffers)
    /\ UNCHANGED <<meshFaces, meshBuffers>>
    /\ UNCHANGED nonMeshVars

NextMesh ==
    \/ CreateMeshBuffer
    \/ RenderDraws

SpecMesh ==
    InitMesh /\ [][NextMesh]_vars

\* C12: the mesh buffer of a mesh with F faces has index count 3*F, and every
\* draw call that render records for that mesh has that element count.
C12_IndexCountIsThreePerFace ==
    \A n \in MeshNames :
        /\ meshBuffers[n] # -1 => meshBuffers[n] = 3 * meshFaces[n]
        /\ \A k \in 1..Len(drawCalls) :
              drawCalls[k].mesh = n => drawCalls[k].count = 3 * meshFaces[n]

C12_Witness ==
    /\ backend = "vulkan"
    /\ meshFaces["pbrModel"] = MaxFaces
    /\ meshFaces["skybox"] = 2
    /\ \E k \in 1..Len(drawCalls) :
          drawCalls[k].mesh = "pbrModel" /\ drawCalls[k].count = 3 * MaxFaces
    /\ \E k \in 1..Len(drawCalls) :
          drawCalls[k].mesh = "skybox" /\ drawCalls[k].count = 6

(***************************************************************************)
(* SpecMem: Vulkan chooseMemoryType and its use by createBuffer.  Flag     *)
(* masks are sets of flag names; memoryTypeBits is the set of permitted    *)
(* type indices.  The uint32_t value -1 that the lambda returns when it    *)
(* finds nothing is written -1.                                            *)
(***************************************************************************)
MemoryFlags ==
    {"DEVICE_LOCAL", "HOST_VISIBLE"}

\* findMemoryTypeWithFlags: the lowest permitted index whose propertyFlags
\* contain `flags`, or -1.
findMemoryTypeWithFlags(types, memoryTypeBits, flags) ==
    LET found == {index \in memoryTypeBits : flags \subseteq types[index]}
    IN  IF found = {} THEN -1
        ELSE CHOOSE index \in found : \A other \in found : index <= other

\* Mutation of chooseMemoryType: the required flags are tried first.
chooseMemoryType_RequiredFirst(types, memoryTypeBits, preferredFlags, requiredFlagsArg) ==
    LET requiredFlags == IF requiredFlagsArg = {} THEN preferredFlags ELSE requiredFlagsArg
        memoryType    == findMemoryTypeWithFlags(types, memoryTypeBits, requiredFlags)
    IN  IF memoryType = -1 /\ requiredFlags # preferredFlags
        THEN findMemoryTypeWithFlags(types, memoryTypeBits, preferredFlags)
        ELSE memoryType

chooseMemoryType(types, memoryTypeBits, preferredFlags, requiredFlagsArg) ==
    LET requiredFlags == IF requiredFlagsArg = {} THEN preferredFlags ELSE requiredFlagsArg
        memoryType    == findMemoryTypeWithFlags(types, memoryTypeBits, preferredFlags)
    IN  IF memoryType = -1 /\ requiredFlags # preferredFlags
        THEN findMemoryTypeWithFlags(types, memoryTypeBits, requiredFlags)
        ELSE memoryType

InitMem ==
    /\ backend = "vulkan"
    /\ InitLifeIdle
    /\ InitHeapIdle
    /\ InitTexIdle
    /\ InitSceneIdle
    /\ InitMeshIdle
    /\ InitRingIdle
    /\ InitTargetsIdle
    /\ InitGpuIdle
    /\ InitUploadIdle
    /\ InitBarriersIdle
    /\ InitLayoutsIdle
    /\ InitDescriptorsIdle
    /\ InitUniformsIdle
    /\ InitMipsIdle
    /\ \E n \in 1..MaxMemoryTypes :
          /\ memoryTypes \in [0..(n - 1) -> SUBSET MemoryFlags]
          /\ memArgs \in [memoryTypeBits : SUBSET (0..(n - 1)),
                          preferredFlags : SUBSET MemoryFlags,
                          requiredFlags  : SUBSET MemoryFlags]
    /\ memResult = [status |-> "none", index |-> -1]
    /\ bufferState = "none"

\* chooseMemoryType returns; it has no throw and no abort.
ChooseMemoryType ==
    /\ memResult = [status |-> "none", index |-> -1]
    /\ memResult' = [status |-> "returned",
                      index  |-> chooseMemoryType(memoryTypes, memArgs.memoryTypeBits,
                                                  memArgs.preferredFlags,
                                                  memArgs.requiredFlags)]
    /\ UNCHANGED <<memoryTypes, memArgs, bufferState>>
    /\ UNCHANGED nonMemVars

\* createBuffer: allocateInfo.memoryTypeIndex = chooseMemoryType(...), then
\* vkAllocateMemory.  An index that is no memory type is invalid usage of
\* vkAllocateMemory: the call may report failure (createBuffer throws) or do
\* anything else.
AllocateMemory ==
    /\ memResult.status = "returned"
    /\ bufferState = "none"
    /\ IF memResult.index \in DOMAIN memoryTypes
       THEN bufferState' \in {"allocated", "throw"}
       ELSE bufferState' \in {"throw", "undefined"}
    /\ UNCHANGED <<memoryTypes, memArgs, memResult>>
    /\ UNCHANGED nonMemVars

NextMem ==
    \/ ChooseMemoryType
    \/ AllocateMemory

SpecMem ==
    InitMem /\ [][NextMem]_vars

\* C13: when no permitted memory type has the preferred flags and none has
\* the required flags, chooseMemoryType fails fatally and returns no memory
\* type index to its caller.
C13_NoMatchIsFatal ==
    LET required == IF memArgs.requiredFlags = {} THEN memArgs.preferredFlags
                    ELSE memArgs.requiredFlags
        NoMatch(flags) == \A index \in memArgs.memoryTypeBits :
                             ~(flags \subseteq memoryTypes[index])
    IN  (memResult.status # "none" /\ NoMatch(memArgs.preferredFlags) /\ NoMatch(required))
            => memResult.status = "fatal"

(***************************************************************************)
(* SpecRing: D3D12 allocFromUploadBuffer and Vulkan allocFromUniformBuffer *)
(* on a buffer made by createUploadBuffer / createUniformBuffer.  Sizes    *)
(* are the small ones the renderer asks for, far from the word size; the   *)
(* alignment is a power of two.  A thrown exception ends the program.      *)
(***************************************************************************)
Alignments ==
    {1, 2, 4}

\* Utility::roundToPowerOfTwo: (value + POT - 1) & -POT, POT a power of two.
roundToPowerOfTwo(value, POT) ==
    (value + POT - 1) - ((value + POT - 1) % POT)

\* Mutation of OutOfCapacity: an exact fit is refused too.
OutOfCapacity_Strict(buffer, alignedSize) ==
    buffer.cursor + alignedSize >= buffer.capacity

\* if(buffer.cursor + alignedSize > buffer.capacity) throw std::overflow_error
OutOfCapacity(buffer, alignedSize) ==
    buffer.cursor + alignedSize > buffer.capacity

InitRing ==
    /\ backend \in ExplicitBackends
    /\ InitLifeIdle
    /\ InitHeapIdle
    /\ InitTexIdle
    /\ InitSceneIdle
    /\ InitMeshIdle
    /\ InitMemIdle
    /\ InitTargetsIdle
    /\ InitGpuIdle
    /\ InitUploadIdle
    /\ InitBarriersIdle
    /\ InitLayoutsIdle
    /\ InitDescriptorsIdle
    /\ InitUniformsIdle
    /\ InitMipsIdle
    /\ \E capacity \in 1..MaxRingCapacity : ring = [capacity |-> capacity, cursor |-> 0]
    /\ IF backend = "vulkan"
       THEN ringLimits \in [minUniformBufferOffsetAlignment : Alignments,
                            maxUniformBufferRange : {MaxRingCapacity \div 2, 2 * MaxRingCapacity}]
       ELSE ringLimits = [minUniformBufferOffsetAlignment |-> 1, maxUniformBufferRange |-> 0]
    /\ ringLast = NoAllocation

\* D3D12 allocFromUploadBuffer(buffer, size, align).
AllocFromUploadBuffer ==
    /\ backend = "d3d12"
    /\ ringLast.status \in {"none", "ok"}
    /\ \E size \in 0..(MaxRingCapacity + 1), align \in Alignments :
          LET alignedSize == roundToPowerOfTwo(size, align)
          IN  IF OutOfCapacity(ring, alignedSize)
              THEN /\ ringLast' = [cursor |-> ring.cursor, size |-> size, align |-> align,
                                   status |-> "overflow_error"]
                   /\ ring' = ring
              ELSE /\ ringLast' = [cursor |-> ring.cursor, size |-> size, align |-> align,
                                   status |-> "ok"]
                   /\ ring' = [ring EXCEPT !.cursor = @ + alignedSize]
    /\ UNCHANGED ringLimits
    /\ UNCHANGED nonRingVars

\* Vulkan allocFromUniformBuffer(buffer, size).
AllocFromUniformBuffer ==
    /\ backend = "vulkan"
    /\ ringLast.status \in {"none", "ok"}
    /\ \E size \in 0..(MaxRingCapacity + 1) :
          LET minAlignment == ringLimits.minUniformBufferOffsetAlignment
              alignedSize  == roundToPowerOfTwo(size, minAlignment)
              last(status) == [cursor |-> ring.cursor, size |-> size,
                               align |-> minAlignment, status |-> status]
          IN  IF alignedSize > ringLimits.maxUniformBufferRange
              THEN /\ ringLast' = last("invalid_argument")
                   /\ ring' = ring
              ELSE IF OutOfCapacity(ring, alignedSize)
              THEN /\ ringLast' = last("overflow_error")
                   /\ ring' = ring
              ELSE /\ ringLast' = last("ok")
                   /\ ring' = [ring EXCEPT !.cursor = @ + alignedSize]
    /\ UNCHANGED ringLimits
    /\ UNCHANGED nonRingVars

NextRing ==
    \/ AllocFromUploadBuffer
    \/ AllocFromUniformBuffer

SpecRing ==
    InitRing /\ [][NextRing]_vars

\* The least multiple of align that is at least size.
AlignUp(size, align) ==
    CHOOSE a \in size..(size + align - 1) : a % align = 0

\* C15 as stated: an allocation whose aligned size exceeds the remaining
\* capacity fails with a fatal error and leaves the cursor unchanged; one
\* that exactly fills the remaining capacity succeeds.
C15_ExactFitSucceeds ==
    ringLast.status # "none" =>
        LET alignedSize == AlignUp(ringLast.size, ringLast.align)
        IN  /\ ringLast.cursor + alignedSize > ring.capacity =>
                 /\ ringLast.status \in {"overflow_error", "invalid_argument"}
                 /\ ring.cursor = ringLast.cursor
            /\ ringLast.cursor + alignedSize = ring.capacity =>
                 /\ ringLast.status = "ok"
                 /\ ring.cursor = ring.capacity

\* C15: an allocation whose aligned size exceeds the remaining capacity fails
\* with a fatal error and leaves the cursor unchanged; one that exactly fills
\* the remaining capacity succeeds, in Vulkan provided its aligned size is
\* within maxUniformBufferRange.
C15_ExactFitSucceedsWithinRange ==
    ringLast.status # "none" =>
        LET alignedSize == AlignUp(ringLast.size, ringLast.align)
        IN  /\ ringLast.cursor + alignedSize > ring.capacity =>
                 /\ ringLast.status \in {"overflow_error", "invalid_argument"}
                 /\ ring.cursor = ringLast.cursor
            /\ (/\ ringLast.cursor + alignedSize = ring.capacity
                /\ backend = "vulkan" => alignedSize <= ringLimits.maxUniformBufferRange) =>
                 /\ ringLast.status = "ok"
                 /\ ring.cursor = ring.capacity

C15_Witness ==
    /\ ringLast.status = "ok"
    /\ ringLast.cursor > 0
    /\ ringLast.size % ringLast.align # 0
    /\ ringLast.cursor + AlignUp(ringLast.size, ringLast.align) = ring.capacity
    /\ ring.cursor = ring.capacity

(***************************************************************************)
(* SpecTargets: the render targets initialize creates for a frame, and the *)
(* resolve step of render.  The device's answers to the multisampling      *)
(* queries are free; maxSamples is initialize's argument.                  *)
(***************************************************************************)
SampleCounts ==
    {2^k : k \in 0..MaxSamplesLog2}

\* for(samples = maxSamples; samples > 1; samples /= 2) { if(supported) break; }
RECURSIVE selectSamples_d3d(_, _)
selectSamples_d3d(samples, supported) ==
    IF samples > 1 /\ samples \notin supported
    THEN selectSamples_d3d(samples \div 2, supported)
    ELSE samples

Min(a, b) ==
    IF a < b THEN a ELSE b

\* The sample count initialize settles on.
selectSamples(b, maxSamples, device) ==
    CASE b \in {"d3d11", "d3d12"} -> selectSamples_d3d(maxSamples, device.supported)
      [] b = "opengl" -> Min(maxSamples, device.maxSupportedSamples)
      [] b = "vulkan" -> Min(maxSamples, Min(device.maxColorSamples, device.maxDepthSamples))

\* The main and the resolve target initialize leaves for a frame.
createTargets(b, samples) ==
    CASE b \in {"d3d11", "d3d12"} ->
            [status |-> "initialized", samples |-> samples,
             main |-> FrameBuffer(1, samples),
             resolve |-> IF samples > 1 THEN FrameBuffer(2, 1) ELSE FrameBuffer(1, samples)]
      [] b = "opengl" ->
            [status |-> "initialized", samples |-> samples,
             main |-> FrameBuffer(1, samples),
             resolve |-> IF samples > 0 THEN FrameBuffer(2, 0) ELSE FrameBuffer(1, samples)]
      [] b = "vulkan" ->
            [status |-> "initialized", samples |-> samples,
             main |-> FrameBuffer(1, samples),
             resolve |-> IF samples > 1 THEN FrameBuffer(2, 1) ELSE NoFrameBuffer]

\* The target the tone mapping pass reads.
resolveTarget(b, t) ==
    IF b = "vulkan"
    THEN IF t.samples > 1 THEN t.resolve ELSE t.main
    ELSE t.resolve

\* OpenGL creates a plain texture for samples = 0; the others for samples = 1.
isSingleSample(b, fb) ==
    IF b = "opengl" THEN fb.samples = 0 ELSE fb.samples = 1

InitTargets ==
    /\ backend \in Backends
    /\ InitLifeIdle
    /\ InitHeapIdle
    /\ InitTexIdle
    /\ InitSceneIdle
    /\ InitMeshIdle
    /\ InitMemIdle
    /\ InitRingIdle
    /\ InitGpuIdle
    /\ InitUploadIdle
    /\ InitBarriersIdle
    /\ InitLayoutsIdle
    /\ InitDescriptorsIdle
    /\ InitUniformsIdle
    /\ InitMipsIdle
    /\ CASE backend \in {"d3d11", "d3d12"} ->
               \E supported \in SUBSET (SampleCounts \ {1}) :
                   deviceSamples = [NoDevice EXCEPT !.supported = supported]
         [] backend = "opengl" ->
               \E n \in SampleCounts :
                   deviceSamples = [NoDevice EXCEPT !.maxSupportedSamples = n]
         [] backend = "vulkan" ->
               \E c \in SampleCounts, d \in SampleCounts :
                   deviceSamples = [NoDevice EXCEPT !.maxColorSamples = c,
                                                    !.maxDepthSamples = d]
    /\ targets = [status |-> "none", samples |-> 0,
                  main |-> NoFrameBuffer, resolve |-> NoFrameBuffer]
    /\ resolveStep = "none"

\* The render target part of Renderer::initialize(width, height, maxSamples).
InitializeTargets ==
    /\ targets.status = "none"
    /\ \E maxSamples \in SampleCounts :
          targets' = createTargets(backend, selectSamples(backend, maxSamples, deviceSamples))
    /\ UNCHANGED <<deviceSamples, resolveStep>>
    /\ UNCHANGED nonTargetVars

\* The resolve step of Renderer::render.
ResolveFrame ==
    /\ targets.status = "initialized"
    /\ resolveStep' =
          IF backend = "vulkan"
          THEN IF targets.samples > 1 THEN "resolved" ELSE "noop"
          ELSE IF targets.main.id = targets.resolve.id THEN "noop" ELSE "resolved"
    /\ UNCHANGED <<deviceSamples, targets>>
    /\ UNCHANGED nonTargetVars

NextTargets ==
    \/ InitializeTargets
    \/ ResolveFrame

SpecTargets ==
    InitTargets /\ [][NextTargets]_vars

\* C16: after initialize the resolve target is the main render target exactly
\* when the selected sample count is 1, the resolve step then does nothing,
\* and a distinct single-sample resolve target exists exactly when the
\* selected sample count is greater than 1.
C16_ResolveTargetSharedIffOneSample ==
    targets.status = "initialized" =>
        LET resolve == resolveTarget(backend, targets)
        IN  /\ resolve = targets.main <=> targets.samples = 1
            /\ (resolve.id # targets.main.id /\ isSingleSample(backend, resolve))
                   <=> targets.samples > 1
            /\ (targets.samples = 1 /\ resolveStep # "none") => resolveStep = "noop"

(***************************************************************************)
(* SpecGpu: how the GPU executes the compute and copy commands of the      *)
(* precompute part of setup().  Commands are issued in submission order; a *)
(* command starts once every earlier command it is ordered after has       *)
(* finished.  What orders two commands is the API's rule: D3D11 tracks     *)
(* every hazard itself; D3D12 and Vulkan order what the recorded barriers  *)
(* and the waits between submissions order; OpenGL orders a command after  *)
(* the image stores of an earlier dispatch only across a glMemoryBarrier,  *)
(* which setup() never issues.                                             *)
(***************************************************************************)
\* The submissions of setup() that hold precompute commands.
PrecomputeSubmissions(b) ==
    SelectSeq(SetupStages(b),
              LAMBDA stage : stage \in {"equirect2cube", "envMips", "spmap", "irmap", "spBRDF"})

\* The textures of TexNames once setup() has created them all.
RECURSIVE SetupTextures(_, _)
SetupTextures(b, n) ==
    IF n = 0
    THEN [name \in TexNames |-> NoTexture]
    ELSE WithTextures(SetupTextures(b, n - 1), StageTextures(b, SetupStages(b)[n]))

\* Command `later` may start only once command `earlier` has finished.
OrderedAfter(b, earlier, later) ==
    CASE b = "d3d11"  -> TRUE
      [] b \in ExplicitBackends ->
            ~(/\ earlier.op = "dispatch"
              /\ later.op = "dispatch"
              /\ earlier.stage = later.stage)
      [] b = "opengl" -> earlier.op # "dispatch"

InitGpu ==
    /\ backend \in Backends
    /\ InitLifeIdle
    /\ InitHeapIdle
    /\ InitTexIdle
    /\ InitSceneIdle
    /\ InitMeshIdle
    /\ InitMemIdle
    /\ InitRingIdle
    /\ InitTargetsIdle
    /\ InitUploadIdle
    /\ InitBarriersIdle
    /\ InitLayoutsIdle
    /\ InitDescriptorsIdle
    /\ InitUniformsIdle
    /\ InitMipsIdle
    /\ cpuStage = 0
    /\ gpuStream = <<>>
    /\ gpuState = <<>>

\* setup() records and submits its next precompute submission; in the
\* explicit backends the wait after the previous one has returned.
PrecomputeSubmit ==
    /\ cpuStage < Len(PrecomputeSubmissions(backend))
    /\ (cpuStage > 0 /\ StageWaits(backend, PrecomputeSubmissions(backend)[cpuStage]))
           => \A k \in DOMAIN gpuState : gpuState[k] = "done"
    /\ LET stage == PrecomputeSubmissions(backend)[cpuStage + 1]
           cmds  == StageCommands(backend, stage,
                                  SetupTextures(backend, Len(SetupStages(backend))))
       IN  /\ gpuStream' = gpuStream \o cmds
           /\ gpuState' = gpuState \o [k \in DOMAIN cmds |-> "queued"]
    /\ cpuStage' = cpuStage + 1
    /\ UNCHANGED nonGpuVars

\* The GPU starts the next queued command.
GpuStart ==
    /\ \E i \in DOMAIN gpuStream :
          /\ gpuState[i] = "queued"
          /\ \A k \in 1..(i - 1) :
                /\ gpuState[k] # "queued"
                /\ OrderedAfter(backend, gpuStream[k], gpuStream[i]) => gpuState[k] = "done"
          /\ gpuState' = [gpuState EXCEPT ![i] = "running"]
    /\ UNCHANGED <<cpuStage, gpuStream>>
    /\ UNCHANGED nonGpuVars

\* A running command finishes.
GpuFinish ==
    /\ \E i \in DOMAIN gpuStream :
          /\ gpuState[i] = "running"
          /\ gpuState' = [gpuState EXCEPT ![i] = "done"]
    /\ UNCHANGED <<cpuStage, gpuStream>>
    /\ UNCHANGED nonGpuVars

NextGpu ==
    \/ PrecomputeSubmit
    \/ GpuStart
    \/ GpuFinish

SpecGpu ==
    InitGpu /\ [][NextGpu]_vars

\* C19: the GPU executes the precompute stages strictly in order: a command
\* of a stage starts only once every command of the earlier stages has
\* finished; so the irradiance dispatch starts only after the mip 0 copy and
\* every filter dispatch have finished.
C19_StagesExecuteInOrder ==
    \A i \in DOMAIN gpuStream, j \in DOMAIN gpuStream :
        (/\ i < j
         /\ gpuStream[i].stage # gpuStream[j].stage
         /\ gpuState[j] # "queued") => gpuState[i] = "done"

(***************************************************************************)
(* SpecStaging: createMeshBuffer's upload of the vertex and index data, as *)
(* setup() calls it for m_pbrModel and then m_skybox.  In Vulkan the       *)
(* memory type chosen for a buffer may or may not be host visible; in      *)
(* D3D12 both buffers live in a DEFAULT heap, which the CPU cannot map.    *)
(* D3D12 reaches createMeshBuffer after the waitForGPU of                  *)
(* createClipSpaceQuad, so m_fenceValues[m_frameIndex] is 1.               *)
(***************************************************************************)
MeshCallOrder ==
    <<"pbrModel", "skybox">>

BufferKinds ==
    {"vertex", "index"}

\* memoryTypeNeedsStaging: the memory type lacks HOST_VISIBLE.
memoryTypeNeedsStaging(hostVisible) ==
    ~hostVisible

UploadBufferState(hostVisible, staging) ==
    [hostVisible |-> hostVisible, staging |-> staging, destroys |-> 0,
     copied |-> FALSE, destroyedAfterCopy |-> FALSE]

UploadCopy(mesh, kind) ==
    [kind |-> "copy", mesh |-> mesh, buffer |-> kind, value |-> 0]

UploadSignal(value) ==
    [kind |-> "signal", mesh |-> "", buffer |-> "", value |-> value]

\* Mutation of UploadWaitOver: the wait after the submission returns at once.
UploadWaitOver_NoWait ==
    TRUE

\* vkQueueWaitIdle (vulkan) or WaitForSingleObject in waitForGPU (d3d12) returns.
UploadWaitOver ==
    IF backend = "vulkan"
    THEN uploadQueue = <<>>
    ELSE uploadFence.completed >= uploadFence.value

InitStaging ==
    /\ backend \in ExplicitBackends
    /\ InitLifeIdle
    /\ InitHeapIdle
    /\ InitTexIdle
    /\ InitSceneIdle
    /\ InitMeshIdle
    /\ InitMemIdle
    /\ InitRingIdle
    /\ InitTargetsIdle
    /\ InitGpuIdle
    /\ InitBarriersIdle
    /\ InitLayoutsIdle
    /\ InitDescriptorsIdle
    /\ InitUniformsIdle
    /\ InitMipsIdle
    /\ uploadCall = [pc |-> "idle", mesh |-> ""]
    /\ uploads = <<>>
    /\ uploadQueue = <<>>
    /\ uploadFence = [completed |-> 0, value |-> IF backend = "d3d12" THEN 1 ELSE 0]

\* createMeshBuffer up to the creation of the staging buffers.
CreateStagingBuffers ==
    /\ uploadCall.pc = "idle"
    /\ Cardinality(DOMAIN uploads) < Len(MeshCallOrder)
    /\ LET mesh == MeshCallOrder[Cardinality(DOMAIN uploads) + 1]
       IN  /\ \E hostVisible \in [BufferKinds -> BOOLEAN] :
                 /\ backend = "d3d12" => \A k \in BufferKinds : ~hostVisible[k]
                 /\ uploads' =
                       [m \in DOMAIN uploads \cup {mesh} |->
                          IF m = mesh
                          THEN [k \in BufferKinds |->
                                  UploadBufferState(hostVisible[k],
                                     IF backend = "d3d12"
                                           \/ memoryTypeNeedsStaging(hostVisible[k])
                                     THEN "created" ELSE "none")]
                          ELSE uploads[m]]
           /\ uploadCall' = [pc |-> "upload", mesh |-> mesh]
    /\ UNCHANGED <<uploadQueue, uploadFence>>
    /\ UNCHANGED nonUploadVars

\* The copies are recorded and submitted, and the wait begins; Vulkan does
\* neither when no buffer is staged.
UploadSubmit ==
    /\ uploadCall.pc = "upload"
    /\ LET mesh   == uploadCall.mesh
           staged == {k \in BufferKinds : uploads[mesh][k].staging = "created"}
           copies == (IF "vertex" \in staged THEN <<UploadCopy(mesh, "vertex")>> ELSE <<>>)
                     \o (IF "index" \in staged THEN <<UploadCopy(mesh, "index")>> ELSE <<>>)
       IN  IF backend = "d3d12"
           THEN /\ uploadQueue' = uploadQueue \o copies \o <<UploadSignal(uploadFence.value)>>
                /\ uploadCall' = [uploadCall EXCEPT !.pc = "wait"]
           ELSE IF staged # {}
           THEN /\ uploadQueue' = uploadQueue \o copies
                /\ uploadCall' = [uploadCall EXCEPT !.pc = "wait"]
           ELSE /\ uploadQueue' = uploadQueue
                /\ uploadCall' = [uploadCall EXCEPT !.pc = "destroy"]
    /\ UNCHANGED <<uploads, uploadFence>>
    /\ UNCHANGED nonUploadVars

\* The GPU executes the command at the head of its queue.
UploadGpuStep ==
    /\ uploadQueue # <<>>
    /\ LET c == Head(uploadQueue)
       IN  IF c.kind = "copy"
           THEN /\ uploads' = [uploads EXCEPT ![c.mesh][c.buffer].copied = TRUE]
                /\ uploadFence' = uploadFence
           ELSE /\ uploadFence' = [uploadFence EXCEPT !.completed = c.value]
                /\ uploads' = uploads
    /\ uploadQueue' = Tail(uploadQueue)
    /\ UNCHANGED uploadCall
    /\ UNCHANGED nonUploadVars

\* The wait after the submission returns.
UploadWaitReturn ==
    /\ uploadCall.pc = "wait"
    /\ UploadWaitOver
    /\ uploadCall' = [uploadCall EXCEPT !.pc = "destroy"]
    /\ uploadFence' = IF backend = "d3d12"
                      THEN [uploadFence EXCEPT !.value = @ + 1]
                      ELSE uploadFence
    /\ UNCHANGED <<uploads, uploadQueue>>
    /\ UNCHANGED nonUploadVars

\* destroyBuffer on each staging buffer in use (vulkan), or the release of
\* the StagingBuffer locals (d3d12); createMeshBuffer returns.
DestroyStagingBuffers ==
    /\ uploadCall.pc = "destroy"
    /\ uploads' = [uploads EXCEPT ![uploadCall.mesh] =
                      [k \in BufferKinds |->
                         IF @[k].staging = "created"
                         THEN [@[k] EXCEPT !.staging = "destroyed",
                                           !.destroys = @ + 1,
                                           !.destroyedAfterCopy = uploads[uploadCall.mesh][k].copied]
                         ELSE @[k]]]
    /\ uploadCall' = [pc |-> "idle", mesh |-> ""]
    /\ UNCHANGED <<uploadQueue, uploadFence>>
    /\ UNCHANGED nonUploadVars

NextStaging ==
    \/ CreateStagingBuffers
    \/ UploadSubmit
    \/ UploadGpuStep
    \/ UploadWaitReturn
    \/ DestroyStagingBuffers

SpecStaging ==
    InitStaging /\ [][NextStaging]_vars

\* C21: createMeshBuffer creates a staging buffer for a buffer exactly when
\* that buffer's memory is not host visible; every staging buffer it created
\* is destroyed exactly once before it returns, and only after the GPU has
\* completed the copy out of it.
C21_StagingCreatedAndDestroyedOnce ==
    \A mesh \in DOMAIN uploads : \A k \in BufferKinds :
        LET b == uploads[mesh][k]
        IN  /\ b.staging # "none" <=> ~b.hostVisible
            /\ b.destroys <= 1
            /\ b.staging = "destroyed" => b.destroys = 1 /\ b.destroyedAfterCopy
            /\ uploadCall.mesh # mesh => b.staging \in {"none", "destroyed"}

C21_Witness ==
    /\ uploadCall.pc = "idle"
    /\ DOMAIN uploads = {"pbrModel", "skybox"}
    /\ uploads["skybox"]["vertex"].staging = "destroyed"
    /\ uploads["skybox"]["index"].staging = "none"
    /\ uploads["pbrModel"]["index"].destroyedAfterCopy

(***************************************************************************)
(* SpecBarriers: the D3D12 resource states of the main color target, the   *)
(* resolve target and the back buffer of every frame slot, from the states *)
(* initialize creates them in, through the transition of setup(), to the   *)
(* transitions each render records.  Command lists execute in submission   *)
(* order, so the state a barrier finds is the one the previous barrier on  *)
(* that resource left.  With a sample count of 1 the resolve target is the *)
(* main target.                                                            *)
(***************************************************************************)
Transition(target, before, after) ==
    [target |-> target, before |-> before, after |-> after]

\* The resource behind "main", "resolve" or "back" of frame slot `frame`.
TargetResource(frame, target, samples) ==
    IF target = "resolve" /\ samples <= 1
    THEN <<frame, "main">>
    ELSE <<frame, target>>

\* Mutation of preResolveBarriers: the destination is taken to be a render target.
preResolveBarriers_FromRenderTarget ==
    <<Transition("main", "RENDER_TARGET", "RESOLVE_SOURCE"),
      Transition("resolve", "RENDER_TARGET", "RESOLVE_DEST")>>

preResolveBarriers ==
    <<Transition("main", "RENDER_TARGET", "RESOLVE_SOURCE"),
      Transition("resolve", "PIXEL_SHADER_RESOURCE", "RESOLVE_DEST")>>

postResolveBarriers ==
    <<Transition("main", "RESOLVE_SOURCE", "RENDER_TARGET"),
      Transition("resolve", "RESOLVE_DEST", "PIXEL_SHADER_RESOURCE")>>

\* The ResourceBarrier calls of render(), in recording order.
RenderBarriers(samples) ==
    (IF samples <= 1
     THEN <<<<Transition("main", "PIXEL_SHADER_RESOURCE", "RENDER_TARGET")>>>>
     ELSE <<>>)
    \o (IF samples > 1
        THEN <<preResolveBarriers, postResolveBarriers>>
        ELSE <<<<Transition("main", "RENDER_TARGET", "PIXEL_SHADER_RESOURCE")>>>>)
    \o <<<<Transition("back", "PRESENT", "RENDER_TARGET")>>,
         <<Transition("back", "RENDER_TARGET", "PRESENT")>>>>

\* The resource states after one ResourceBarrier call on slot `frame`.
RECURSIVE ApplyBarriers(_, _, _, _)
ApplyBarriers(states, frame, samples, barriers) ==
    IF barriers = <<>>
    THEN states
    ELSE ApplyBarriers([states EXCEPT ![TargetResource(frame, Head(barriers).target, samples)]
                                          = Head(barriers).after],
                       frame, samples, Tail(barriers))

\* What the log keeps of one ResourceBarrier call: per barrier, the resource,
\* the before-state named and the state the resource was in.
RECURSIVE LogBarriers(_, _, _, _)
LogBarriers(states, frame, samples, barriers) ==
    IF barriers = <<>>
    THEN <<>>
    ELSE LET r == TargetResource(frame, Head(barriers).target, samples)
         IN  <<[resource |-> r, before |-> Head(barriers).before, actual |-> states[r]]>>
             \o LogBarriers([states EXCEPT ![r] = Head(barriers).after],
                            frame, samples, Tail(barriers))

InitBarriers ==
    /\ backend = "d3d12"
    /\ InitLifeIdle
    /\ InitHeapIdle
    /\ InitTexIdle
    /\ InitSceneIdle
    /\ InitMeshIdle
    /\ InitMemIdle
    /\ InitRingIdle
    /\ InitTargetsIdle
    /\ InitGpuIdle
    /\ InitUploadIdle
    /\ InitLayoutsIdle
    /\ InitDescriptorsIdle
    /\ InitUniformsIdle
    /\ InitMipsIdle
    /\ barrierPc = "setup"
    /\ \E samples \in SampleCounts :
          /\ barrierFrame = [index |-> 0, renders |-> 0, samples |-> samples, step |-> 0]
          /\ resourceStates =
                [r \in {<<f, t>> : f \in 0..(NumFrames - 1),
                                   t \in IF samples > 1 THEN {"main", "resolve", "back"}
                                                        ELSE {"main", "back"}} |->
                    IF r[2] = "back" THEN "PRESENT" ELSE "RENDER_TARGET"]
    /\ barrierLog = <<>>

\* setup(): the resolve target of every slot becomes a pixel shader resource.
SetupBarriers ==
    /\ barrierPc = "setup"
    /\ LET samples == barrierFrame.samples
           RECURSIVE PerFrame(_, _, _)
           PerFrame(f, states, log) ==
               IF f = NumFrames
               THEN <<states, log>>
               ELSE LET b == <<Transition("resolve", "RENDER_TARGET", "PIXEL_SHADER_RESOURCE")>>
                    IN  PerFrame(f + 1, ApplyBarriers(states, f, samples, b),
                                 log \o LogBarriers(states, f, samples, b))
           result == PerFrame(0, resourceStates, <<>>)
       IN  /\ resourceStates' = result[1]
           /\ barrierLog' = result[2]
    /\ barrierPc' = "loop"
    /\ UNCHANGED barrierFrame
    /\ UNCHANGED nonBarrierVars

\* render() begins on slot m_frameIndex.
RenderBegin ==
    /\ barrierPc = "loop"
    /\ barrierFrame.renders < MaxRenders
    /\ barrierPc' = "render"
    /\ barrierFrame' = [barrierFrame EXCEPT !.renders = @ + 1, !.step = 1]
    /\ barrierLog' = <<>>
    /\ UNCHANGED resourceStates
    /\ UNCHANGED nonBarrierVars

\* render() records its next ResourceBarrier call.
RenderBarrier ==
    /\ barrierPc = "render"
    /\ barrierFrame.step <= Len(RenderBarriers(barrierFrame.samples))
    /\ LET b == RenderBarriers(barrierFrame.samples)[barrierFrame.step]
       IN  /\ resourceStates' = ApplyBarriers(resourceStates, barrierFrame.index,
                                              barrierFrame.samples, b)
           /\ barrierLog' = barrierLog \o LogBarriers(resourceStates, barrierFrame.index,
                                                      barrierFrame.samples, b)
    /\ barrierFrame' = [barrierFrame EXCEPT !.step = @ + 1]
    /\ UNCHANGED barrierPc
    /\ UNCHANGED nonBarrierVars

\* render() submits and presents; the swap chain moves to the next slot.
RenderPresent ==
    /\ barrierPc = "render"
    /\ barrierFrame.step = Len(RenderBarriers(barrierFrame.samples)) + 1
    /\ barrierPc' = "loop"
    /\ barrierFrame' = [barrierFrame EXCEPT !.index = (@ + 1) % NumFrames, !.step = 0]
    /\ UNCHANGED <<resourceStates, barrierLog>>
    /\ UNCHANGED nonBarrierVars

NextBarriers ==
    \/ SetupBarriers
    \/ RenderBegin
    \/ RenderBarrier
    \/ RenderPresent

SpecBarriers ==
    InitBarriers /\ [][NextBarriers]_vars

\* C22: every transition barrier names as before-state the state its resource
\* is in; at the end of a render the multisampled main target of every slot is
\* a render target, the resolve (or single-sample main) target a pixel shader
\* resource, and the back buffer in present state.
C22_BarriersNameActualState ==
    /\ \A k \in DOMAIN barrierLog : barrierLog[k].before = barrierLog[k].actual
    /\ barrierPc = "loop" =>
          \A f \in 0..(NumFrames - 1) :
              /\ barrierFrame.samples > 1 => resourceStates[<<f, "main">>] = "RENDER_TARGET"
              /\ resourceStates[TargetResource(f, "resolve", barrierFrame.samples)]
                    = "PIXEL_SHADER_RESOURCE"
              /\ resourceStates[<<f, "back">>] = "PRESENT"

C22_Witness ==
    /\ barrierPc = "loop"
    /\ barrierFrame.renders >= 3
    /\ barrierFrame.samples > 1
    /\ Len(barrierLog) = 6

(***************************************************************************)
(* Vulkan image layouts during setup (vulkan.cpp).  Every ImageMemoryBarrier *)
(* of the file covers all array layers, so a layout is tracked per mip     *)
(* level.  A level also records whether its contents are defined: a        *)
(* transition from VK_IMAGE_LAYOUT_UNDEFINED discards them.                *)
(***************************************************************************)
MaterialImages ==
    <<"albedo", "normal", "metalness", "roughness">>

LayoutImages ==
    {"albedo", "normal", "metalness", "roughness", "envTextureEquirect",
     "envTextureUnfiltered", "env", "irmap", "spBRDF_LUT"}

\* Edge lengths of the image files read by Image::fromFile.
ImageSizes ==
    {2 ^ k : k \in 0..MaxImageLog2}

\* ImageMemoryBarrier(texture, srcAccess, dstAccess, oldLayout, newLayout)
\*     .mipLevels(base, count)
ImageMemoryBarrier(image, base, count, oldLayout, newLayout) ==
    [op |-> "barrier", image |-> image, base |-> base, count |-> count,
     layout |-> oldLayout, newLayout |-> newLayout]

\* A copy, blit or dispatch reading the levels in the layout it declares.
ImageRead(image, base, count, layout) ==
    [op |-> "read", image |-> image, base |-> base, count |-> count,
     layout |-> layout, newLayout |-> layout]

\* A copy, blit or dispatch writing the levels in the layout it declares.
ImageWrite(image, base, count, layout) ==
    [op |-> "write", image |-> image, base |-> base, count |-> count,
     layout |-> layout, newLayout |-> layout]

\* for(level=1; level<texture.levels; ++level): preBlitBarrier, vkCmdBlitImage,
\* postBlitBarrier.
RECURSIVE BlitLoop(_, _, _)
BlitLoop(image, level, levels) ==
    IF level < levels
    THEN <<ImageMemoryBarrier(image, level, 1, "UNDEFINED", "TRANSFER_DST_OPTIMAL"),
           ImageRead(image, level - 1, 1, "TRANSFER_SRC_OPTIMAL"),
           ImageWrite(image, level, 1, "TRANSFER_DST_OPTIMAL"),
           ImageMemoryBarrier(image, level, 1, "TRANSFER_DST_OPTIMAL", "TRANSFER_SRC_OPTIMAL")>>
         \o BlitLoop(image, level + 1, levels)
    ELSE <<>>

\* Mutation of generateMipmaps: the final transition covers the base level only.
generateMipmaps_BaseOnly(image, levels) ==
    BlitLoop(image, 1, levels)
    \o <<ImageMemoryBarrier(image, 0, 1, "TRANSFER_SRC_OPTIMAL", "SHADER_READ_ONLY_OPTIMAL")>>

generateMipmaps(image, levels) ==
    BlitLoop(image, 1, levels)
    \o <<ImageMemoryBarrier(image, 0, levels, "TRANSFER_SRC_OPTIMAL", "SHADER_READ_ONLY_OPTIMAL")>>

finalBaseMipLayout(levels) ==
    IF levels > 1 THEN "TRANSFER_SRC_OPTIMAL" ELSE "SHADER_READ_ONLY_OPTIMAL"

\* createTexture(image, format, levels): upload of the base level, then the
\* mip chain when the texture has one.
createTextureFromImage(image, levels) ==
    <<ImageMemoryBarrier(image, 0, 1, "UNDEFINED", "TRANSFER_DST_OPTIMAL"),
      ImageWrite(image, 0, 1, "TRANSFER_DST_OPTIMAL"),
      ImageMemoryBarrier(image, 0, 1, "TRANSFER_DST_OPTIMAL", finalBaseMipLayout(levels))>>
    \o (IF levels > 1 THEN generateMipmaps(image, levels) ELSE <<>>)

\* Level count of every image of the setup; sizes[k] is the edge length of
\* the k-th material image file.
LayoutLevels(sizes) ==
    [n \in LayoutImages |->
       CASE n = "albedo"    -> createTexture_vulkan(sizes[1], sizes[1], 1, 0).levels
         [] n = "normal"    -> createTexture_vulkan(sizes[2], sizes[2], 1, 0).levels
         [] n = "metalness" -> createTexture_vulkan(sizes[3], sizes[3], 1, 0).levels
         [] n = "roughness" -> createTexture_vulkan(sizes[4], sizes[4], 1, 0).levels
         [] n = "envTextureEquirect" -> 1
         [] n = "envTextureUnfiltered" ->
              createTexture_vulkan(kEnvMapSize, kEnvMapSize, 6, 0).levels
         [] n = "env" -> createTexture_vulkan(kEnvMapSize, kEnvMapSize, 6, 0).levels
         [] n = "irmap" ->
              createTexture_vulkan(kIrradianceMapSize, kIrradianceMapSize, 6, 1).levels
         [] n = "spBRDF_LUT" ->
              createTexture_vulkan(kBRDF_LUT_Size, kBRDF_LUT_Size, 1, 1).levels]

\* for(level=1; level<kEnvMapLevels; ++level) vkCmdDispatch: each dispatch
\* samples envTextureUnfiltered and stores to one mip tail view of m_envTexture.
RECURSIVE SpmapDispatches(_, _)
SpmapDispatches(level, lv) ==
    IF level < SpmapLevels("vulkan", <<>>)
    THEN <<ImageRead("envTextureUnfiltered", 0, lv["envTextureUnfiltered"],
                     "SHADER_READ_ONLY_OPTIMAL"),
           ImageWrite("env", level, 1, "GENERAL")>>
         \o SpmapDispatches(level + 1, lv)
    ELSE <<>>

\* The image commands of setup(), in recording order.
SetupImageCommands(lv) ==
    createTextureFromImage("albedo", lv["albedo"])
    \o createTextureFromImage("normal", lv["normal"])
    \o createTextureFromImage("metalness", lv["metalness"])
    \o createTextureFromImage("roughness", lv["roughness"])
    \* equirect2cube
    \o createTextureFromImage("envTextureEquirect", lv["envTextureEquirect"])
    \o <<ImageMemoryBarrier("envTextureUnfiltered", 0, 1, "UNDEFINED", "GENERAL"),
         ImageRead("envTextureEquirect", 0, lv["envTextureEquirect"],
                   "SHADER_READ_ONLY_OPTIMAL"),
         ImageWrite("envTextureUnfiltered", 0, 1, "GENERAL"),
         ImageMemoryBarrier("envTextureUnfiltered", 0, 1, "GENERAL", "TRANSFER_SRC_OPTIMAL")>>
    \o generateMipmaps("envTextureUnfiltered", lv["envTextureUnfiltered"])
    \* spmap
    \o <<ImageMemoryBarrier("envTextureUnfiltered", 0, 1,
                            "SHADER_READ_ONLY_OPTIMAL", "TRANSFER_SRC_OPTIMAL"),
         ImageMemoryBarrier("env", 0, lv["env"], "UNDEFINED", "TRANSFER_DST_OPTIMAL"),
         ImageRead("envTextureUnfiltered", 0, 1, "TRANSFER_SRC_OPTIMAL"),
         ImageWrite("env", 0, 1, "TRANSFER_DST_OPTIMAL"),
         ImageMemoryBarrier("envTextureUnfiltered", 0, 1,
                            "TRANSFER_SRC_OPTIMAL", "SHADER_READ_ONLY_OPTIMAL"),
         ImageMemoryBarrier("env", 0, lv["env"], "TRANSFER_DST_OPTIMAL", "GENERAL")>>
    \o SpmapDispatches(1, lv)
    \o <<ImageMemoryBarrier("env", 0, lv["env"], "GENERAL", "SHADER_READ_ONLY_OPTIMAL")>>
    \* irmap
    \o <<ImageMemoryBarrier("irmap", 0, lv["irmap"], "UNDEFINED", "GENERAL"),
         ImageRead("env", 0, lv["env"], "SHADER_READ_ONLY_OPTIMAL"),
         ImageWrite("irmap", 0, 1, "GENERAL"),
         ImageMemoryBarrier("irmap", 0, lv["irmap"], "GENERAL", "SHADER_READ_ONLY_OPTIMAL")>>
    \* spBRDF
    \o <<ImageMemoryBarrier("spBRDF_LUT", 0, lv["spBRDF_LUT"], "UNDEFINED", "GENERAL"),
         ImageWrite("spBRDF_LUT", 0, 1, "GENERAL"),
         ImageMemoryBarrier("spBRDF_LUT", 0, lv["spBRDF_LUT"], "GENERAL",
                            "SHADER_READ_ONLY_OPTIMAL")>>

\* createImage: createInfo.initialLayout = VK_IMAGE_LAYOUT_UNDEFINED.
createImage(levels) ==
    [l \in 0..(levels - 1) |-> [layout |-> "UNDEFINED", valid |-> FALSE]]

Covers(c, l) ==
    c.base <= l /\ l < c.base + c.count

\* The command finds every level it covers in the layout it names.
FindsLayout(c, levels) ==
    \A l \in DOMAIN levels :
        Covers(c, l) =>
            \/ levels[l].layout = c.layout
            \/ c.op = "barrier" /\ c.layout = "UNDEFINED"

FindsContents(c, levels) ==
    \A l \in DOMAIN levels : Covers(c, l) => levels[l].valid

InitLayouts ==
    /\ backend = "vulkan"
    /\ InitLifeIdle
    /\ InitHeapIdle
    /\ InitTexIdle
    /\ InitSceneIdle
    /\ InitMeshIdle
    /\ InitMemIdle
    /\ InitRingIdle
    /\ InitTargetsIdle
    /\ InitGpuIdle
    /\ InitUploadIdle
    /\ InitBarriersIdle
    /\ InitDescriptorsIdle
    /\ InitUniformsIdle
    /\ InitMipsIdle
    /\ layoutPc = 1
    /\ \E sizes \in [1..Len(MaterialImages) -> ImageSizes] :
         /\ layoutProgram = SetupImageCommands(LayoutLevels(sizes))
         /\ imageLayouts = [n \in LayoutImages |-> createImage(LayoutLevels(sizes)[n])]
    /\ layoutFaults = {}

NextCommandIs(op) ==
    /\ layoutPc \in 1..Len(layoutProgram)
    /\ layoutProgram[layoutPc].op = op

\* pipelineBarrier with one image memory barrier.
RecordBarrier ==
    /\ NextCommandIs("barrier")
    /\ LET c == layoutProgram[layoutPc]
           levels == imageLayouts[c.image]
       IN /\ layoutFaults' = IF FindsLayout(c, levels)
                             THEN layoutFaults ELSE layoutFaults \cup {layoutPc}
          /\ imageLayouts' =
                [imageLayouts EXCEPT ![c.image] =
                    [l \in DOMAIN levels |->
                        IF Covers(c, l)
                        THEN [layout |-> c.newLayout,
                              valid |-> levels[l].valid /\ c.layout # "UNDEFINED"]
                        ELSE levels[l]]]
    /\ layoutPc' = layoutPc + 1
    /\ UNCHANGED layoutProgram
    /\ UNCHANGED nonLayoutVars

\* The source side of vkCmdCopyImage / vkCmdBlitImage, or the sampled image
\* of a dispatch.
RecordRead ==
    /\ NextCommandIs("read")
    /\ LET c == layoutProgram[layoutPc]
           levels == imageLayouts[c.image]
       IN layoutFaults' = IF FindsLayout(c, levels) /\ FindsContents(c, levels)
                          THEN layoutFaults ELSE layoutFaults \cup {layoutPc}
    /\ layoutPc' = layoutPc + 1
    /\ UNCHANGED <<layoutProgram, imageLayouts>>
    /\ UNCHANGED nonLayoutVars

\* The destination side of vkCmdCopyBufferToImage / vkCmdCopyImage /
\* vkCmdBlitImage, or the storage image of a dispatch.
RecordWrite ==
    /\ NextCommandIs("write")
    /\ LET c == layoutProgram[layoutPc]
           levels == imageLayouts[c.image]
       IN /\ layoutFaults' = IF FindsLayout(c, levels)
                             THEN layoutFaults ELSE layoutFaults \cup {layoutPc}
          /\ imageLayouts' =
                [imageLayouts EXCEPT ![c.image] =
                    [l \in DOMAIN levels |->
                        IF Covers(c, l)
                        THEN [layout |-> levels[l].layout, valid |-> TRUE]
                        ELSE levels[l]]]
    /\ layoutPc' = layoutPc + 1
    /\ UNCHANGED layoutProgram
    /\ UNCHANGED nonLayoutVars

NextLayouts ==
    \/ RecordBarrier
    \/ RecordRead
    \/ RecordWrite

SpecLayouts ==
    InitLayouts /\ [][NextLayouts]_vars

SetupLayoutsDone ==
    /\ layoutProgram # <<>>
    /\ layoutPc = Len(layoutProgram) + 1

ShaderInputs ==
    {"albedo", "normal", "metalness", "roughness", "env", "irmap", "spBRDF_LUT"}

\* C23: in the Vulkan setup every image memory barrier names as oldLayout
\* UNDEFINED or the layout its mip levels are in, no command reads a level
\* whose contents a transition from UNDEFINED discarded, every copy, blit and
\* dispatch finds its images in the layout it declares, and at the end of
\* setup every mip level of the environment map, the irradiance map, the BRDF
\* LUT and the material textures is in SHADER_READ_ONLY_OPTIMAL with defined
\* contents at every level the shaders sample.
C23_LayoutsTracked ==
    /\ layoutFaults = {}
    /\ SetupLayoutsDone =>
         \A n \in ShaderInputs : \A l \in DOMAIN imageLayouts[n] :
             /\ imageLayouts[n][l].layout = "SHADER_READ_ONLY_OPTIMAL"
             /\ imageLayouts[n][l].valid

C23_Witness ==
    /\ SetupLayoutsDone
    /\ Cardinality(DOMAIN imageLayouts["albedo"]) > 1
    /\ Cardinality(DOMAIN imageLayouts["roughness"]) = 1
    /\ \A l \in DOMAIN imageLayouts["env"] :
           imageLayouts["env"][l].layout = "SHADER_READ_ONLY_OPTIMAL"

(***************************************************************************)
(* SpecDescriptors: the use setup() makes of m_descHeapCBV_SRV_UAV in the  *)
(* D3D12 backend (d3d12.cpp), with the command lists that reference its    *)
(* slots.  initialize has allocated one shader resource view per frame     *)
(* slot (createFrameBuffer), and m_fenceValues[m_frameIndex] is 1 after    *)
(* the waitForGPU of createClipSpaceQuad.                                  *)
(***************************************************************************)
kDescriptorHeapSize ==
    128

DescriptorNames ==
    {"framebuffer0", "framebuffer1", "albedo", "normal", "metalness", "roughness",
     "env", "envTextureUnfiltered", "envTextureEquirect", "irmap", "spBRDF_LUT",
     "linearTexture", "transformCBV0", "shadingCBV0", "transformCBV1", "shadingCBV1"}

\* Edge lengths of the (square) material image files.
ImageDims ==
    1..MaxImageDim

NoDescriptor ==
    -1

NoHandles ==
    [srv |-> NoDescriptor, uav |-> NoDescriptor, cbv |-> NoDescriptor]

DescOp(op, tex, view, src, level) ==
    [op |-> op, tex |-> tex, view |-> view, src |-> src, level |-> level]

\* texture.srv = m_descHeapCBV_SRV_UAV.alloc();
createTextureSRV(tex) ==
    DescOp("alloc", tex, "srv", "", 0)

\* texture.uav = m_descHeapCBV_SRV_UAV.alloc();
createTextureUAV(tex) ==
    DescOp("alloc", tex, "uav", "", 0)

\* view.cbv = m_descHeapCBV_SRV_UAV.alloc();
createConstantBufferView(name) ==
    DescOp("alloc", name, "cbv", "", 0)

\* DescriptorHeapMark mark(m_descHeapCBV_SRV_UAV);
MarkScope ==
    DescOp("mark", "", "", "", 0)

\* The end of the block that declared the mark: ~DescriptorHeapMark.
EndScope ==
    DescOp("restore", "", "", "", 0)

\* Texture linearTexture = texture;
CopyTexture(dst, src) ==
    DescOp("copy", dst, "", src, 0)

\* A new Texture value assigned to the variable: both handles are fresh.
NewTexture(tex) ==
    DescOp("new", tex, "", "", 0)

\* SetComputeRootDescriptorTable(0, srv), SetComputeRootDescriptorTable(1, uav),
\* Dispatch: `src` names the texture whose srv is bound ("" when none is),
\* `tex` the texture whose uav is bound.
Dispatch(stage, level, src, tex) ==
    DescOp("dispatch", tex, stage, src, level)

ExecuteCommandList ==
    DescOp("execute", "", "", "", 0)

WaitForGPU ==
    DescOp("wait", "", "", "", 0)

RECURSIVE BitAnd(_, _)
BitAnd(a, b) ==
    IF a = 0 \/ b = 0 THEN 0
    ELSE (IF a % 2 = 1 /\ b % 2 = 1 THEN 1 ELSE 0) + 2 * BitAnd(a \div 2, b \div 2)

\* Utility::isPowerOfTwo: value != 0 && (value & (value - 1)) == 0.
isPowerOfTwo(value) ==
    value # 0 /\ BitAnd(value, value - 1) = 0

\* for(level=1; level<texture.levels; ++level) of generateMipmaps.
RECURSIVE MipDispatches(_, _, _)
MipDispatches(tex, level, levels) ==
    IF level < levels
    THEN <<createTextureSRV("linearTexture"), createTextureUAV("linearTexture"),
           Dispatch("mips:" \o tex, level, "linearTexture", "linearTexture")>>
         \o MipDispatches(tex, level + 1, levels)
    ELSE <<>>

\* generateMipmaps(texture), from the DescriptorHeapMark on.
generateMipmaps_d3d12(tex, levels, srgb) ==
    <<MarkScope, CopyTexture("linearTexture", tex)>>
    \o (IF srgb
        THEN <<NewTexture("linearTexture"), createTextureSRV("linearTexture")>>
        ELSE <<>>)
    \o MipDispatches(tex, 1, levels)
    \o <<ExecuteCommandList, WaitForGPU, EndScope>>

\* createTexture(image, format, levels).
createTextureFromImage_d3d12(tex, width, height, levels, srgb) ==
    LET texture == createTexture_d3d12(width, height, 1, levels)
    IN  <<NewTexture(tex), createTextureSRV(tex)>>
        \o (IF texture.levels > 1 /\ texture.width = texture.height
                                  /\ isPowerOfTwo(texture.width)
            THEN generateMipmaps_d3d12(tex, texture.levels, srgb)
            ELSE <<ExecuteCommandList, WaitForGPU>>)

MaterialTextures(dims) ==
    createTextureFromImage_d3d12("albedo", dims[1], dims[1], 0, TRUE)
    \o createTextureFromImage_d3d12("normal", dims[2], dims[2], 0, FALSE)
    \o createTextureFromImage_d3d12("metalness", dims[3], dims[3], 0, FALSE)
    \o createTextureFromImage_d3d12("roughness", dims[4], dims[4], 0, FALSE)

\* for(level=1, size=512; level<m_envTexture.levels; ++level, size/=2)
RECURSIVE PrefilterDispatches(_, _)
PrefilterDispatches(level, levels) ==
    IF level < levels
    THEN <<createTextureUAV("env"),
           Dispatch("spmap", level, "envTextureUnfiltered", "env")>>
         \o PrefilterDispatches(level + 1, levels)
    ELSE <<>>

EnvironmentStage ==
    LET levels == createTexture_d3d12(1024, 1024, 6, 0).levels
    IN  <<NewTexture("env"), createTextureSRV("env"),
          MarkScope,
          NewTexture("envTextureUnfiltered"), createTextureSRV("envTextureUnfiltered"),
          createTextureUAV("envTextureUnfiltered"),
          MarkScope>>
        \o createTextureFromImage_d3d12("envTextureEquirect", 2, 1, 1, FALSE)
        \o <<Dispatch("equirect2cube", 0, "envTextureEquirect", "envTextureUnfiltered")>>
        \o generateMipmaps_d3d12("envTextureUnfiltered", levels, FALSE)
        \o <<EndScope,
             MarkScope>>
        \o PrefilterDispatches(1, levels)
        \o <<ExecuteCommandList, WaitForGPU,
             EndScope,
             EndScope>>

\* Mutation of IrradianceStage: the mark is taken after the UAV is created.
IrradianceStage_MarkAfterUAV ==
    <<NewTexture("irmap"), createTextureSRV("irmap"),
      createTextureUAV("irmap"),
      MarkScope,
      Dispatch("irmap", 0, "env", "irmap"),
      ExecuteCommandList, WaitForGPU,
      EndScope>>

IrradianceStage ==
    <<NewTexture("irmap"), createTextureSRV("irmap"),
      MarkScope,
      createTextureUAV("irmap"),
      Dispatch("irmap", 0, "env", "irmap"),
      ExecuteCommandList, WaitForGPU,
      EndScope>>

BRDFStage ==
    <<NewTexture("spBRDF_LUT"), createTextureSRV("spBRDF_LUT"),
      MarkScope,
      createTextureUAV("spBRDF_LUT"),
      Dispatch("spBRDF", 0, "", "spBRDF_LUT"),
      ExecuteCommandList, WaitForGPU,
      EndScope>>

\* m_transformCBVs[frameIndex], m_shadingCBVs[frameIndex] for each frame slot,
\* then executeCommandList(false); waitForGPU().
FrameResources ==
    <<createConstantBufferView("transformCBV0"), createConstantBufferView("shadingCBV0"),
      createConstantBufferView("transformCBV1"), createConstantBufferView("shadingCBV1"),
      ExecuteCommandList, WaitForGPU>>

SetupDescriptorCommands(dims) ==
    MaterialTextures(dims) \o EnvironmentStage \o IrradianceStage \o BRDFStage
    \o FrameResources

\* Descriptors that live until shutdown.
PersistentDescriptors ==
    {<<"framebuffer0", "srv">>, <<"framebuffer1", "srv">>,
     <<"albedo", "srv">>, <<"normal", "srv">>, <<"metalness", "srv">>,
     <<"roughness", "srv">>, <<"env", "srv">>, <<"irmap", "srv">>,
     <<"spBRDF_LUT", "srv">>,
     <<"transformCBV0", "cbv">>, <<"shadingCBV0", "cbv">>,
     <<"transformCBV1", "cbv">>, <<"shadingCBV1", "cbv">>}

PersistentSlots ==
    {descHandles[d[1]][d[2]] : d \in PersistentDescriptors} \ {NoDescriptor}

DispatchSlots(d) ==
    {d.srv, d.uav} \ {NoDescriptor}

RECURSIVE SlotsOf(_)
SlotsOf(dispatches) ==
    IF dispatches = <<>> THEN {}
    ELSE DispatchSlots(Head(dispatches)) \cup SlotsOf(Tail(dispatches))

RECURSIVE QueueSlots(_)
QueueSlots(q) ==
    IF q = <<>> THEN {}
    ELSE (IF Head(q).kind = "list" THEN SlotsOf(Head(q).dispatches) ELSE {})
         \cup QueueSlots(Tail(q))

\* Slots named by a dispatch whose command list has not finished on the GPU.
SlotsInFlight ==
    SlotsOf(descList) \cup QueueSlots(descQueue)

Fault(kind) ==
    [pc |-> descPc, kind |-> kind]

\* ~DescriptorHeapMark: heap.numDescriptorsAllocated = mark;
DescriptorHeapMarkRestore_Keep(mark, allocated) ==
    allocated

DescriptorHeapMarkRestore(mark, allocated) ==
    mark

\* Mutation of DescWaitOver: waitForGPU returns at once.
DescWaitOver_NoWait ==
    TRUE

\* WaitForSingleObject(m_fenceCompletionEvent) in waitForGPU returns.
DescWaitOver ==
    descFence.completed >= descFence.value

InitDescriptors ==
    /\ backend = "d3d12"
    /\ InitLifeIdle
    /\ InitHeapIdle
    /\ InitTexIdle
    /\ InitSceneIdle
    /\ InitMeshIdle
    /\ InitMemIdle
    /\ InitRingIdle
    /\ InitTargetsIdle
    /\ InitGpuIdle
    /\ InitUploadIdle
    /\ InitBarriersIdle
    /\ InitLayoutsIdle
    /\ InitUniformsIdle
    /\ InitMipsIdle
    /\ descPc = 1
    /\ \E dims \in [1..4 -> ImageDims] : descProgram = SetupDescriptorCommands(dims)
    /\ descHeap = [numDescriptorsInHeap |-> kDescriptorHeapSize,
                   numDescriptorsAllocated |-> NumFrames]
    /\ descScopes = <<>>
    /\ descHandles = [n \in DescriptorNames |->
                        CASE n = "framebuffer0" -> [NoHandles EXCEPT !.srv = 0]
                          [] n = "framebuffer1" -> [NoHandles EXCEPT !.srv = 1]
                          [] OTHER -> NoHandles]
    /\ descList = <<>>
    /\ descQueue = <<>>
    /\ descFence = [completed |-> 0, value |-> 1]
    /\ descLog = <<>>
    /\ descFaults = {}

NextDescOpIs(op) ==
    /\ descPc \in 1..Len(descProgram)
    /\ descProgram[descPc].op = op

\* DescriptorHeap::alloc through createTextureSRV, createTextureUAV or
\* createConstantBufferView, which writes the descriptor into the slot.
DescAlloc ==
    /\ NextDescOpIs("alloc")
    /\ LET c == descProgram[descPc]
           index == descHeap.numDescriptorsAllocated
       IN  /\ descHeap' = [descHeap EXCEPT !.numDescriptorsAllocated = index + 1]
           /\ descHandles' = [descHandles EXCEPT ![c.tex][c.view] = index]
           /\ descFaults' = descFaults
                \cup (IF index \in SlotsInFlight THEN {Fault("written in flight")} ELSE {})
                \cup (IF index >= descHeap.numDescriptorsInHeap
                      THEN {Fault("overflow")} ELSE {})
    /\ descPc' = descPc + 1
    /\ UNCHANGED <<descProgram, descScopes, descList, descQueue, descFence, descLog>>
    /\ UNCHANGED nonDescVars

\* A Texture variable is assigned: a copy of another, or a new texture.
DescAssign ==
    /\ NextDescOpIs("copy") \/ NextDescOpIs("new")
    /\ LET c == descProgram[descPc]
       IN  descHandles' = [descHandles EXCEPT ![c.tex] =
                              IF c.op = "copy" THEN descHandles[c.src] ELSE NoHandles]
    /\ descPc' = descPc + 1
    /\ UNCHANGED <<descProgram, descHeap, descScopes, descList, descQueue, descFence,
                   descLog, descFaults>>
    /\ UNCHANGED nonDescVars

DescMark ==
    /\ NextDescOpIs("mark")
    /\ descScopes' = Append(descScopes, [mark |-> descHeap.numDescriptorsAllocated,
                                         persistent |-> PersistentSlots])
    /\ descPc' = descPc + 1
    /\ UNCHANGED <<descProgram, descHeap, descHandles, descList, descQueue, descFence,
                   descLog, descFaults>>
    /\ UNCHANGED nonDescVars

\* The innermost live mark is destroyed.
DescRestore ==
    /\ NextDescOpIs("restore")
    /\ descScopes # <<>>
    /\ LET scope == descScopes[Len(descScopes)]
           cursor == DescriptorHeapMarkRestore(scope.mark, descHeap.numDescriptorsAllocated)
       IN  /\ descHeap' = [descHeap EXCEPT !.numDescriptorsAllocated = cursor]
           /\ descFaults' = descFaults
                \cup (IF \E slot \in SlotsInFlight : slot >= cursor
                      THEN {Fault("rewound in flight")} ELSE {})
                \cup (IF \E slot \in scope.persistent : slot >= cursor
                      THEN {Fault("rewound past an earlier descriptor")} ELSE {})
                \cup (IF cursor # scope.mark THEN {Fault("not the mark")} ELSE {})
    /\ descScopes' = SubSeq(descScopes, 1, Len(descScopes) - 1)
    /\ descPc' = descPc + 1
    /\ UNCHANGED <<descProgram, descHandles, descList, descQueue, descFence, descLog>>
    /\ UNCHANGED nonDescVars

DescDispatch ==
    /\ NextDescOpIs("dispatch")
    /\ LET c == descProgram[descPc]
           d == [stage |-> c.view, level |-> c.level,
                 srv |-> IF c.src = "" THEN NoDescriptor ELSE descHandles[c.src].srv,
                 uav |-> descHandles[c.tex].uav]
       IN  /\ descList' = Append(descList, d)
           /\ descLog' = Append(descLog, d)
    /\ descPc' = descPc + 1
    /\ UNCHANGED <<descProgram, descHeap, descScopes, descHandles, descQueue, descFence,
                   descFaults>>
    /\ UNCHANGED nonDescVars

\* executeCommandList followed by the Signal of waitForGPU.
DescExecute ==
    /\ NextDescOpIs("execute")
    /\ descQueue' = Append(descQueue, [kind |-> "list", dispatches |-> descList, value |-> 0])
    /\ descList' = <<>>
    /\ descPc' = descPc + 1
    /\ UNCHANGED <<descProgram, descHeap, descScopes, descHandles, descFence, descLog,
                   descFaults>>
    /\ UNCHANGED nonDescVars

\* waitForGPU: Signal and SetEventOnCompletion.
DescWaitBegin ==
    /\ NextDescOpIs("wait")
    /\ ~\E k \in DOMAIN descQueue : descQueue[k].kind = "signal"
    /\ descFence.completed < descFence.value
    /\ descQueue' = Append(descQueue, [kind |-> "signal", dispatches |-> <<>>,
                                       value |-> descFence.value])
    /\ UNCHANGED <<descPc, descProgram, descHeap, descScopes, descHandles, descList,
                   descFence, descLog, descFaults>>
    /\ UNCHANGED nonDescVars

\* waitForGPU returns: ++m_fenceValues[m_frameIndex].
DescWaitReturn ==
    /\ NextDescOpIs("wait")
    /\ \/ \E k \in DOMAIN descQueue : descQueue[k].kind = "signal"
       \/ descFence.completed >= descFence.value
    /\ DescWaitOver
    /\ descFence' = [descFence EXCEPT !.value = @ + 1]
    /\ descPc' = descPc + 1
    /\ UNCHANGED <<descProgram, descHeap, descScopes, descHandles, descList, descQueue,
                   descLog, descFaults>>
    /\ UNCHANGED nonDescVars

\* The GPU finishes the item at the head of its queue.
DescGpuStep ==
    /\ descQueue # <<>>
    /\ descFence' = IF Head(descQueue).kind = "signal"
                    THEN [descFence EXCEPT !.completed = Head(descQueue).value]
                    ELSE descFence
    /\ descQueue' = Tail(descQueue)
    /\ UNCHANGED <<descPc, descProgram, descHeap, descScopes, descHandles, descList,
                   descLog, descFaults>>
    /\ UNCHANGED nonDescVars

NextDescriptors ==
    \/ DescAlloc
    \/ DescAssign
    \/ DescMark
    \/ DescRestore
    \/ DescDispatch
    \/ DescExecute
    \/ DescWaitBegin
    \/ DescWaitReturn
    \/ DescGpuStep

SpecDescriptors ==
    InitDescriptors /\ [][NextDescriptors]_vars

SetupDescriptorsDone ==
    /\ descProgram # <<>>
    /\ descPc = Len(descProgram) + 1

PerLevelStage(stage) ==
    stage \notin {"equirect2cube", "irmap", "spBRDF"}

\* C24: in the D3D12 setup no descriptor slot named by a recorded dispatch is
\* rewound by the destruction of a DescriptorHeapMark, or written again by a
\* later allocation, before the command list holding that dispatch has
\* finished on the GPU; and the views created for one level of the specular
\* prefilter (its UAV) and of mip generation (its SRV and UAV) occupy slots
\* that no other dispatch of the same stage names.
C24_DescriptorsStableInFlight ==
    /\ \A f \in descFaults : f.kind \notin {"written in flight", "rewound in flight"}
    /\ \A i \in DOMAIN descLog, j \in DOMAIN descLog :
          (i # j /\ PerLevelStage(descLog[i].stage)
                 /\ descLog[j].stage = descLog[i].stage) =>
              /\ descLog[i].uav # NoDescriptor
              /\ descLog[i].uav \notin DispatchSlots(descLog[j])
              /\ descLog[i].stage # "spmap" =>
                    /\ descLog[i].srv # NoDescriptor
                    /\ descLog[i].srv \notin DispatchSlots(descLog[j])

C24_Witness ==
    /\ SetupDescriptorsDone
    /\ descQueue = <<>>
    /\ \E i \in DOMAIN descLog, j \in DOMAIN descLog :
          /\ descLog[i].stage = "spmap" /\ descLog[j].stage = "spmap"
          /\ descLog[i].level = 1 /\ descLog[j].level = 2
          /\ descLog[j].uav = descLog[i].uav + 1
    /\ \E i \in DOMAIN descLog : descLog[i].stage = "mips:albedo" /\ descLog[i].level = 2

\* C25: in the D3D12 setup, generateMipmaps included, the descriptors a stage
\* uses only itself are allocated inside a DescriptorHeapMark scope and
\* released when it ends: whenever no scope is open the allocated slots are
\* exactly those of the descriptors that live on.  Scopes are nested (each
\* mark is at or above the enclosing one and at or below the cursor), the
\* end of a scope sets the cursor to exactly the value it had at the mark and
\* never below a descriptor allocated before the mark, and the cursor never
\* exceeds the heap's 128 slots.
C25_MarkScopesNested ==
    /\ \A f \in descFaults :
          f.kind \notin {"rewound past an earlier descriptor", "not the mark", "overflow"}
    /\ descProgram # <<>> =>
          /\ descHeap.numDescriptorsAllocated <= kDescriptorHeapSize
          /\ descHeap.numDescriptorsInHeap = 128
          /\ descScopes = <<>> =>
                PersistentSlots = 0..(descHeap.numDescriptorsAllocated - 1)
          /\ \A k \in DOMAIN descScopes :
                /\ descScopes[k].mark <= descHeap.numDescriptorsAllocated
                /\ k > 1 => descScopes[k - 1].mark <= descScopes[k].mark
                /\ descScopes[k].persistent = 0..(descScopes[1].mark - 1)

C25_Witness ==
    /\ Len(descScopes) = 1
    /\ descHeap.numDescriptorsAllocated = descScopes[1].mark + 2
    /\ descProgram # <<>>
    /\ descProgram[descPc] = MarkScope
    /\ \E i \in DOMAIN descLog : descLog[i].stage = "mips:envTextureUnfiltered"

\* C26: after the D3D12 setup the shader resource views of the albedo,
\* normal, metalness, roughness, specular environment, irradiance and BRDF
\* LUT textures occupy seven consecutive slots of the heap, in that order,
\* all below the cursor: the range the PBR root signature's table of seven
\* descriptors covers when render binds it at m_albedoTexture.srv.
C26_PbrTableConsecutive ==
    SetupDescriptorsDone =>
        LET base == descHandles["albedo"].srv
            table == <<"albedo", "normal", "metalness", "roughness", "env", "irmap",
                       "spBRDF_LUT">>
        IN  /\ base # NoDescriptor
            /\ \A k \in 1..7 : descHandles[table[k]].srv = base + (k - 1)
            /\ base + 7 <= descHeap.numDescriptorsAllocated

C26_Witness ==
    /\ SetupDescriptorsDone
    /\ descHandles["albedo"].srv = NumFrames
    /\ descHandles["spBRDF_LUT"].srv = NumFrames + 6
    /\ \E i \in DOMAIN descLog : descLog[i].stage = "mips:normal"

(***************************************************************************)
(* SpecUniforms: the per-frame uniform blocks.  D3D12 sub-allocates them   *)
(* from m_constantBuffer through createConstantBufferView, Vulkan from     *)
(* m_uniformBuffer through allocFromUniformBuffer; both buffers hold 64 kB *)
(* and are created by setup() with the cursor at 0.  The Vulkan alignment  *)
(* is the device's minUniformBufferOffsetAlignment, a power of two of at   *)
(* most 256; its maxUniformBufferRange is at least 16384.                  *)
(***************************************************************************)
kUniformBufferSize ==
    64 * 1024

\* sizeof(TransformCB) = sizeof(TransformUniforms): three 4x4 float matrices.
SizeofTransform ==
    3 * 64

\* sizeof(ShadingCB) = sizeof(ShadingUniforms): NumLights pairs of float
\* 4-vectors and one more 4-vector.
SizeofShading ==
    NumLights * 32 + 16

UniformAlignments ==
    {16, 32, 64, 128, 256}

UniformBlocks ==
    <<"transform", "shading">>

SizeofBlock(block) ==
    IF block = "transform" THEN SizeofTransform ELSE SizeofShading

NoRegion ==
    [offset |-> -1, size |-> 0]

\* allocFromUploadBuffer / allocFromUniformBuffer on a buffer that has room:
\* the region starts at the cursor, which advances by the aligned size.
SubAllocate(buffer, size, align) ==
    LET alignedSize == roundToPowerOfTwo(size, align)
    IN  IF OutOfCapacity(buffer, alignedSize)
        THEN [buffer |-> buffer, region |-> NoRegion, status |-> "overflow_error"]
        ELSE [buffer |-> [buffer EXCEPT !.cursor = @ + alignedSize],
              region |-> [offset |-> buffer.cursor, size |-> alignedSize],
              status |-> "ok"]

\* Mutation of UniformsForRender: render sub-allocates the block anew.
UniformsForRender_Allocate(buffer, regions, frame, block, align) ==
    SubAllocate(buffer, SizeofBlock(block), align)

\* render: m_transformCBVs[m_frameIndex] / m_shadingCBVs[m_frameIndex], or
\* m_transformUniforms[m_frameIndex] / m_shadingUniforms[m_frameIndex].
UniformsForRender(buffer, regions, frame, block, align) ==
    [buffer |-> buffer, region |-> regions[frame][block], status |-> "ok"]

InitUniforms ==
    /\ backend \in ExplicitBackends
    /\ InitLifeIdle
    /\ InitHeapIdle
    /\ InitTexIdle
    /\ InitSceneIdle
    /\ InitMeshIdle
    /\ InitMemIdle
    /\ InitRingIdle
    /\ InitTargetsIdle
    /\ InitGpuIdle
    /\ InitUploadIdle
    /\ InitBarriersIdle
    /\ InitLayoutsIdle
    /\ InitDescriptorsIdle
    /\ InitMipsIdle
    /\ uniformBuffer = [capacity |-> kUniformBufferSize, cursor |-> 0]
    /\ \E n \in 2..MaxVkFrames, align \in UniformAlignments :
          /\ backend = "d3d12" => n = NumFrames /\ align = 256
          /\ uniformFrame = [pc |-> "setup", numFrames |-> n, align |-> align,
                             next |-> 0, block |-> 1, index |-> 0, renders |-> 0,
                             cursorAtSetup |-> -1]
          /\ uniformRegions = [i \in 0..(n - 1) |->
                                 [b \in {"transform", "shading"} |-> NoRegion]]
    /\ uniformLog = <<>>

\* One sub-allocation of the per-frame loop of setup().
SetupAllocUniform ==
    /\ uniformFrame.pc = "setup"
    /\ uniformFrame.next < uniformFrame.numFrames
    /\ LET block == UniformBlocks[uniformFrame.block]
           r == SubAllocate(uniformBuffer, SizeofBlock(block), uniformFrame.align)
       IN  /\ uniformBuffer' = r.buffer
           /\ uniformRegions' = [uniformRegions EXCEPT ![uniformFrame.next][block] = r.region]
           /\ uniformLog' = Append(uniformLog, [phase |-> "setup", frame |-> uniformFrame.next,
                                               block |-> block, status |-> r.status])
    /\ uniformFrame' = IF uniformFrame.block = Len(UniformBlocks)
                       THEN [uniformFrame EXCEPT !.next = @ + 1, !.block = 1]
                       ELSE [uniformFrame EXCEPT !.block = @ + 1]
    /\ UNCHANGED nonUniformVars

\* setup() returns.
SetupUniformsDone ==
    /\ uniformFrame.pc = "setup"
    /\ uniformFrame.next = uniformFrame.numFrames
    /\ uniformFrame' = [uniformFrame EXCEPT !.pc = "loop",
                                            !.cursorAtSetup = uniformBuffer.cursor]
    /\ UNCHANGED <<uniformBuffer, uniformRegions, uniformLog>>
    /\ UNCHANGED nonUniformVars

\* render updates the two uniform blocks of the current frame slot, then
\* presentFrame chooses the next slot: the next back buffer in D3D12, the
\* image vkAcquireNextImageKHR hands out in Vulkan.
RenderUniforms ==
    /\ uniformFrame.pc = "loop"
    /\ uniformFrame.renders < MaxRenders
    /\ LET t == UniformsForRender(uniformBuffer, uniformRegions, uniformFrame.index,
                                  "transform", uniformFrame.align)
           s == UniformsForRender(t.buffer, uniformRegions, uniformFrame.index,
                                  "shading", uniformFrame.align)
       IN  /\ uniformBuffer' = s.buffer
           /\ uniformLog' = uniformLog
                \o (IF t.buffer # uniformBuffer
                    THEN <<[phase |-> "render", frame |-> uniformFrame.index,
                            block |-> "transform", status |-> t.status]>> ELSE <<>>)
                \o (IF s.buffer # t.buffer
                    THEN <<[phase |-> "render", frame |-> uniformFrame.index,
                            block |-> "shading", status |-> s.status]>> ELSE <<>>)
    /\ \E nextIndex \in 0..(uniformFrame.numFrames - 1) :
          /\ backend = "d3d12" => nextIndex = (uniformFrame.index + 1) % uniformFrame.numFrames
          /\ uniformFrame' = [uniformFrame EXCEPT !.renders = @ + 1, !.index = nextIndex]
    /\ UNCHANGED uniformRegions
    /\ UNCHANGED nonUniformVars

NextUniforms ==
    \/ SetupAllocUniform
    \/ SetupUniformsDone
    \/ RenderUniforms

SpecUniforms ==
    InitUniforms /\ [][NextUniforms]_vars

\* C29: the uniform / constant ring buffer is sub-allocated only during
\* setup, exactly twice (transform block, shading block) for every frame
\* slot; render allocates nothing, so after any number of renders the cursor
\* is what it was at the end of setup, and it never exceeds the capacity.
C29_UniformAllocationsOnlyInSetup ==
    /\ \A k \in DOMAIN uniformLog :
          uniformLog[k].phase = "setup" /\ uniformLog[k].status = "ok"
    /\ uniformBuffer.cursor <= uniformBuffer.capacity
    /\ uniformFrame.pc = "loop" =>
          /\ uniformBuffer.cursor = uniformFrame.cursorAtSetup
          /\ Len(uniformLog) = 2 * uniformFrame.numFrames
          /\ \A i \in 0..(uniformFrame.numFrames - 1) :
                /\ uniformLog[2 * i + 1].frame = i /\ uniformLog[2 * i + 1].block = "transform"
                /\ uniformLog[2 * i + 2].frame = i /\ uniformLog[2 * i + 2].block = "shading"
                /\ uniformRegions[i]["transform"].offset + uniformRegions[i]["transform"].size
                      <= uniformRegions[i]["shading"].offset
                /\ uniformRegions[i]["shading"].offset + uniformRegions[i]["shading"].size
                      <= uniformBuffer.cursor

C29_Witness ==
    /\ uniformFrame.pc = "loop"
    /\ uniformFrame.renders = MaxRenders
    /\ uniformFrame.numFrames = 3
    /\ uniformBuffer.cursor = 6 * 256

(***************************************************************************)
(* SpecMips: the downsample pipeline states of the D3D12 backend.          *)
(* m_mipmapGeneration holds three lazily created pipeline states; setup()  *)
(* calls generateMipmaps through createTexture(image, format) for each of  *)
(* the four material textures whose image is square with a power-of-two    *)
(* side, and then once for envTextureUnfiltered, a cube map of 6 layers.   *)
(***************************************************************************)
MaterialFormats ==
    <<[texture |-> "albedo", srgb |-> TRUE],
      [texture |-> "normal", srgb |-> FALSE],
      [texture |-> "metalness", srgb |-> FALSE],
      [texture |-> "roughness", srgb |-> FALSE]>>

\* The pipeline state a ComPtr of m_mipmapGeneration points to: null until
\* the state has been created.
PipelineStateGet(created, name) ==
    IF name \in created THEN name ELSE "null"

\* generateMipmaps, the choice of pipelineState: the states created so far
\* and the state handed to SetPipelineState.
selectPipelineState(created, depthOrArraySize, srgb) ==
    LET chosen ==
            IF depthOrArraySize = 1 /\ srgb
            THEN [created |-> created \cup {"gammaTexturePipelineState"},
                  pipelineState |-> "gammaTexturePipelineState"]
            ELSE IF depthOrArraySize > 1 /\ ~srgb
            THEN [created |-> created \cup {"arrayTexturePipelineState"},
                  pipelineState |-> "arrayTexturePipelineState"]
            ELSE [created |-> created \cup {"linearTexturePipelineState"},
                  pipelineState |-> PipelineStateGet(created, "gammaTexturePipelineState")]
    IN  IF srgb
        THEN [chosen EXCEPT !.pipelineState =
                 PipelineStateGet(chosen.created, "gammaTexturePipelineState")]
        ELSE chosen

\* generateMipmaps(texture): the dispatches of one call all use the selected
\* state; the call is recorded with the description of its texture.
MipmapCall(texture, width, layers, srgb) ==
    LET sel == selectPipelineState(mipmapGeneration, layers, srgb)
    IN  /\ mipmapGeneration' = sel.created
        /\ mipLog' = Append(mipLog, [texture |-> texture, width |-> width,
                                     layers |-> layers, srgb |-> srgb,
                                     pipelineState |-> sel.pipelineState])

InitMips ==
    /\ backend = "d3d12"
    /\ InitLifeIdle
    /\ InitHeapIdle
    /\ InitTexIdle
    /\ InitSceneIdle
    /\ InitMeshIdle
    /\ InitMemIdle
    /\ InitRingIdle
    /\ InitTargetsIdle
    /\ InitGpuIdle
    /\ InitUploadIdle
    /\ InitBarriersIdle
    /\ InitLayoutsIdle
    /\ InitDescriptorsIdle
    /\ InitUniformsIdle
    /\ mipPc = 1
    /\ mipmapGeneration = {}
    /\ mipLog = <<>>

\* createTexture(image, format) of the next material texture: the mip chain
\* is generated only for a square image with a power-of-two side.
LoadMaterialTexture ==
    /\ mipPc \in DOMAIN MaterialFormats
    /\ \E width \in ImageDims, height \in ImageDims :
          LET texture == createTexture_d3d12(width, height, 1, 0)
          IN  IF texture.levels > 1 /\ texture.width = texture.height
                                    /\ isPowerOfTwo(texture.width)
              THEN MipmapCall(MaterialFormats[mipPc].texture, texture.width, 1,
                              MaterialFormats[mipPc].srgb)
              ELSE UNCHANGED <<mipmapGeneration, mipLog>>
    /\ mipPc' = mipPc + 1
    /\ UNCHANGED nonMipVars

\* generateMipmaps(envTextureUnfiltered).
ConvertEnvironmentMips ==
    /\ mipPc = Len(MaterialFormats) + 1
    /\ MipmapCall("envTextureUnfiltered", kEnvMapSize, 6, FALSE)
    /\ mipPc' = mipPc + 1
    /\ UNCHANGED nonMipVars

NextMips ==
    \/ LoadMaterialTexture
    \/ ConvertEnvironmentMips

SpecMips ==
    InitMips /\ [][NextMips]_vars

\* The downsample pipeline the kind of a texture calls for.
PipelineOfKind(layers, srgb) ==
    IF layers > 1 THEN "arrayTexturePipelineState"
    ELSE IF srgb THEN "gammaTexturePipelineState"
    ELSE "linearTexturePipelineState"

\* C30: every generateMipmaps call of the D3D12 backend dispatches with a
\* non-null pipeline state that matches the kind of its texture: the gamma
\* pipeline for single-layer sRGB textures, the array pipeline for
\* multi-layer textures, the linear pipeline for single-layer non-sRGB
\* textures, whichever textures were processed before.
C30_PipelineMatchesTextureKind ==
    \A k \in DOMAIN mipLog :
        /\ mipLog[k].pipelineState # "null"
        /\ mipLog[k].pipelineState = PipelineOfKind(mipLog[k].layers, mipLog[k].srgb)

(***************************************************************************)
(* Properties of the life cycle.                                           *)
(***************************************************************************)

\* C1: render resets and re-records slot i's command buffer / allocator only
\* when the GPU has finished slot i's previous submission.
C1_ResetOnlyWhenSlotIdle ==
    ~resetWhilePending

\* C2: when the wait after an immediate mode submission returns, all work
\* submitted to the queue before the wait has finished executing; this holds
\* for every such wait, the first one after initialize included.
C2_ImmediateWaitsForCompletion ==
    \A k \in 1..Len(pendingAtWaitReturn) : pendingAtWaitReturn[k] = 0

C5_SlotsRoundRobinFromZero ==
    \A k \in 1..Len(renderCalls) : renderCalls[k] = (k - 1) % m_numFrames

\* C6: in the backends with frame slots (d3d12, vulkan) at most N frames,
\* N the number of slots, are submitted to the GPU and not yet completed.
C6_InFlightBounded ==
    backend \in ExplicitBackends => InFlightFrames <= m_numFrames

C6_Witness ==
    /\ backend \in ExplicitBackends
    /\ Len(renderCalls) > m_numFrames
    /\ InFlightFrames = m_numFrames

\* C7: when setup has recorded the prefilter stage, in every backend it holds
\* exactly one filter dispatch for each mip level 1..levels-1 and none for
\* any other level, and one plain copy of mip 0 that precedes every dispatch.
SpmapRecorded ==
    SelectSeq(recorded, LAMBDA c : c.stage = "spmap")

C7_OneDispatchPerFilteredMip ==
    SpmapRecorded # <<>> =>
        LET cmds   == SpmapRecorded
            levels == textures["env"].levels
            Count(L) == Cardinality({k \in 1..Len(cmds) :
                                       cmds[k].op = "dispatch" /\ cmds[k].level = L})
        IN  /\ \A L \in 1..(levels - 1) : Count(L) = 1
            /\ \A k \in 1..Len(cmds) :
                  cmds[k].op = "dispatch" => cmds[k].level \in 1..(levels - 1)
            /\ cmds[1].op = "copy" /\ cmds[1].level = 0
            /\ \A k \in 2..Len(cmds) : cmds[k].op = "dispatch"

\* C10: once setup has run, in every backend the environment cubemap is
\* 1024x1024 with 6 layers and 11 mip levels, the irradiance cubemap 32x32
\* with 6 layers and 1 mip level, the BRDF LUT 256x256 with 1 layer and 1
\* mip level.
SetupDone ==
    pc \in {"loop", "recording", "present_wait", "shutdown_wait", "done"}

C10_PrecomputedTextureShapes ==
    SetupDone =>
        /\ textures["env"] = Texture(1024, 1024, 6, 11)
        /\ textures["irmap"] = Texture(32, 32, 6, 1)
        /\ textures["spBRDF_LUT"] = Texture(256, 256, 1, 1)

C10_Witness ==
    /\ SetupDone
    /\ backend = "vulkan"
    /\ textures["env"].levels = 11
    /\ textures["irmap"].levels = 1
    /\ textures["spBRDF_LUT"].layers = 1

(***************************************************************************)
(* Properties of createTexture and of the prefilter stage (SpecTex).       *)
(***************************************************************************)
Log2Floor(n) ==
    CHOOSE k \in 0..20 : 2 ^ k <= n /\ n < 2 ^ (k + 1)

\* C9: a texture created with levels = 0 and width, height >= 1 stores
\* floor(log2(max(width, height))) + 1 mip levels.
C9_AutoLevels ==
    (texResult # NoTexture /\ texArgs.levels = 0) =>
        texResult.levels = Log2Floor(Max(texArgs.width, texArgs.height)) + 1

C9_Witness ==
    /\ texArgs.levels = 0
    /\ texArgs.width = 3
    /\ texArgs.height = kEnvMapSize
    /\ texResult.levels = 11

\* x and y are the same float or neighbours in the sequence of floats.
FloatAdjacent(x, y) ==
    \/ x = y
    \/ x.e = y.e /\ (x.m = y.m + 1 \/ y.m = x.m + 1)
    \/ x.e = y.e + 1 /\ x.m = 2 ^ 23 /\ y.m = 2 ^ 24 - 1
    \/ y.e = x.e + 1 /\ y.m = 2 ^ 23 /\ x.m = 2 ^ 24 - 1

FilteredMips ==
    {k \in 1..Len(spmapResult) :
        /\ spmapResult[k].op = "dispatch"
        /\ spmapResult[k].level \in 1..(texResult.levels - 1)}

\* C8 as stated: the roughness passed for mip L, 1 <= L <= levels-1, is
\* exactly the float L/(levels-1) (denominator 1 when levels = 1), lies in
\* (0, 1] and is 1 for the last mip.
C8_RoughnessIsExactQuotient ==
    /\ (spmapResult # <<>> /\ texResult.levels = 1) => deltaRoughness = FloatOne
    /\ \A k \in FilteredMips :
          LET c == spmapResult[k]
          IN  /\ c.roughness = FloatDiv(c.level, Max(texResult.levels - 1, 1))
              /\ c.roughness.m > 0
              /\ FloatLE(c.roughness, FloatOne)
              /\ c.level = texResult.levels - 1 => c.roughness = FloatOne

\* C8: the roughness passed for mip L, 1 <= L <= levels-1, is the float
\* product L * (1/(levels-1)) (denominator 1 when levels = 1), which is the
\* float L/(levels-1) or a neighbour of it, lies in (0, 1] and is 1 for the
\* last mip.
C8_RoughnessWithinOneUlp ==
    /\ (spmapResult # <<>> /\ texResult.levels = 1) => deltaRoughness = FloatOne
    /\ \A k \in FilteredMips :
          LET c == spmapResult[k]
          IN  /\ FloatAdjacent(c.roughness,
                               FloatDiv(c.level, Max(texResult.levels - 1, 1)))
              /\ c.roughness.m > 0
              /\ FloatLE(c.roughness, FloatOne)
              /\ c.level = texResult.levels - 1 => c.roughness = FloatOne

C8_Witness ==
    /\ texResult.levels = 11
    /\ \E k \in FilteredMips :
          /\ spmapResult[k].level = 9
          /\ spmapResult[k].roughness # FloatDiv(9, 10)
    /\ \E k \in FilteredMips :
          /\ spmapResult[k].level = 10
          /\ spmapResult[k].roughness = FloatOne

(***************************************************************************)
(* Properties of the descriptor heap (SpecHeap).                           *)
(***************************************************************************)

\* C4: after a Mark and its Restore with no nested Mark in between, the next
\* alloc() returns the index that the first alloc() after the Mark returned.
C4_RestoreReplaysFirstAlloc ==
    (afterRestore # NoMark /\ afterRestore.first # -1 /\ ~afterRestore.nested) =>
        lastAlloc = afterRestore.first

C4_Witness ==
    /\ afterRestore # NoMark
    /\ ~afterRestore.nested
    /\ afterRestore.first = 1
    /\ lastAlloc = 1
    /\ heap.numDescriptorsAllocated = 2

\* C14: alloc() returns the slot at the cursor and advances the cursor by
\* one; an alloc() issued when the heap is full (cursor equals capacity)
\* fails fatally and returns no slot.
C14_AllocAdvancesOrFailsFatally ==
    [][heap'.numDescriptorsAllocated = heap.numDescriptorsAllocated + 1 =>
          IF heap.numDescriptorsAllocated < heap.numDescriptorsInHeap
          THEN /\ lastAlloc' = heap.numDescriptorsAllocated
               /\ heapFault' = "none"
          ELSE /\ heapFault' = "abort"
               /\ lastAlloc' = lastAlloc]_vars

\* The renderer operation Application::run is in, by position.
Operation(p) ==
    CASE p = "initialize" -> "initialize"
      [] p \in {"setup", "setup_wait"} -> "setup"
      [] p = "loop" -> "between renders"
      [] p \in {"recording", "present_wait"} -> "render"
      [] p = "shutdown_wait" -> "shutdown"
      [] p = "done" -> "returned"

\* C17: run calls initialize, then setup, then render zero or more times,
\* then shutdown, each of the others once; a render starts only after setup
\* has returned (all its stages done) and never once shutdown has begun.
C17_RunOrder ==
    [][/\ Operation(pc') # Operation(pc) =>
             <<Operation(pc), Operation(pc')>> \in
                 {<<"initialize", "setup">>,
                  <<"setup", "between renders">>,
                  <<"between renders", "render">>,
                  <<"render", "between renders">>,
                  <<"between renders", "shutdown">>,
                  <<"between renders", "returned">>,
                  <<"shutdown", "returned">>}
       /\ renderCalls' # renderCalls =>
             /\ Operation(pc) = "between renders"
             /\ Operation(pc') = "render"
             /\ setupStep = Len(SetupStages(backend))
             /\ Len(renderCalls') = Len(renderCalls) + 1
       /\ Operation(pc') = "render" /\ Operation(pc) # "render" =>
             renderCalls' # renderCalls
       /\ Operation(pc) \in {"initialize", "setup"} => renderCalls = <<>>]_vars

C17_Witness ==
    /\ pc = "done"
    /\ Len(renderCalls) >= 2
    /\ setupStep = Len(SetupStages(backend))

\* The precompute stages, in program order.
PrecomputeStages ==
    <<"equirect2cube", "envMips", "spmap", "irmap", "spBRDF">>

\* The precompute stages whose commands the submission tagged `tag` holds.
StagesOfSubmission(tag) ==
    {c.stage : c \in {StageCommands(backend, tag, textures)[k] :
                         k \in DOMAIN StageCommands(backend, tag, textures)}}

\* The GPU has not yet executed (all of) precompute stage `stage`.
StagePending(stage) ==
    \E k \in DOMAIN queue :
        /\ IsWork(queue[k])
        /\ stage \in StagesOfSubmission(queue[k].tag)

\* Stage number n + 1 has commands recorded while stage number n is pending.
RecordedBeforeCompletion(n) ==
    /\ \E k \in DOMAIN recorded : recorded[k].stage = PrecomputeStages[n + 1]
    /\ StagePending(PrecomputeStages[n])

InRender ==
    pc \in {"recording", "present_wait"}

\* C20: with the GPU eventually completing everything submitted, every
\* render call returns, whatever the initial image index and the order in
\* which the swap chain hands out its images.
C20_EveryRenderReturns ==
    InRender ~> (pc = "loop")


(***************************************************************************)
(* Properties of chooseMemoryType (SpecMem).                               *)
(***************************************************************************)
EffectiveRequiredFlags ==
    IF memArgs.requiredFlags = {} THEN memArgs.preferredFlags ELSE memArgs.requiredFlags

\* Permitted memory types whose propertyFlags contain every flag of `flags`.
PermittedWith(flags) ==
    {index \in memArgs.memoryTypeBits : flags \subseteq memoryTypes[index]}

\* Permitted memory types whose propertyFlags are exactly `flags`.
PermittedExactly(flags) ==
    {index \in memArgs.memoryTypeBits : memoryTypes[index] = flags}

\* C27 as stated: chooseMemoryType returns a permitted memory type whose
\* flags are exactly preferredFlags whenever one exists; only when none exists
\* does it return a permitted type matching requiredFlags (preferredFlags when
\* omitted); it never returns a type that memoryTypeBits does not permit.
C27_ExactPreferredMatch ==
    memResult.status = "returned" =>
        /\ PermittedExactly(memArgs.preferredFlags) # {} =>
              memResult.index \in PermittedExactly(memArgs.preferredFlags)
        /\ (PermittedWith(memArgs.preferredFlags) = {}
              /\ PermittedWith(EffectiveRequiredFlags) # {}) =>
              memResult.index \in PermittedWith(EffectiveRequiredFlags)
        /\ memResult.index \in DOMAIN memoryTypes => memResult.index \in memArgs.memoryTypeBits

\* C27, amended: chooseMemoryType returns the lowest permitted memory type
\* that has every flag of preferredFlags (it may have others) whenever one
\* exists; only when none exists does it return the lowest permitted type
\* that has every flag of requiredFlags (preferredFlags when omitted); a
\* memory type it returns is always permitted by memoryTypeBits, and it
\* returns no memory type (-1) exactly when neither search finds one.
C27_PreferredThenRequired ==
    memResult.status = "returned" =>
        LET preferred == PermittedWith(memArgs.preferredFlags)
            required  == PermittedWith(EffectiveRequiredFlags)
            Lowest(S) == CHOOSE index \in S : \A other \in S : index <= other
        IN  /\ preferred # {} => memResult.index = Lowest(preferred)
            /\ (preferred = {} /\ required # {}) => memResult.index = Lowest(required)
            /\ memResult.index # -1 => memResult.index \in memArgs.memoryTypeBits
            /\ memResult.index = -1 <=> (preferred = {} /\ required = {})

C27_Witness ==
    /\ memResult.status = "returned"
    /\ PermittedWith(memArgs.preferredFlags) = {}
    /\ PermittedWith(EffectiveRequiredFlags) # {}
    /\ memResult.index = 1
    /\ memArgs.memoryTypeBits = {0, 1}


(***************************************************************************)
(* Properties of the recorded precompute dispatches (Spec).                *)
(***************************************************************************)
\* Edge length and layer count of the texture a precompute stage writes.
DispatchOutput(stage) ==
    CASE stage = "equirect2cube" -> [size |-> kEnvMapSize, layers |-> 6]
      [] stage = "spmap"  -> [size |-> textures["env"].width,
                              layers |-> textures["env"].layers]
      [] stage = "irmap"  -> [size |-> textures["irmap"].width,
                              layers |-> textures["irmap"].layers]
      [] stage = "spBRDF" -> [size |-> textures["spBRDF_LUT"].width,
                              layers |-> textures["spBRDF_LUT"].layers]

\* C28: every precompute dispatch covers its output with workgroups of 32x32
\* texels: for level L of an output of edge S the grid has max(1, (S >> L)/32)
\* groups in x and in y (L = 0 outside the specular prefilter), and the grid
\* depth is the output's layer count, 6 for the cubemaps and 1 for the BRDF
\* LUT, in every backend.
C28_DispatchGridCoversOutput ==
    \A k \in DOMAIN recorded :
        recorded[k].op = "dispatch" =>
            LET out == DispatchOutput(recorded[k].stage)
            IN  /\ recorded[k].groups = Max(1, ShiftRight(out.size, recorded[k].level) \div 32)
                /\ recorded[k].depth = out.layers

====
